---- MODULE Spec2Model ----
(***************************************************************************)
(* Model of the FlowForge LLM service request pipeline:                    *)
(*   RateLimiter         (src/src/utils/rate-limiter.ts)                   *)
(*   ConcurrencyLimiter  (utils/concurrency-limiter, src/unnamed/part_003) *)
(*   JsonValidator       (utils/json-validator,      src/unnamed/part_002) *)
(*   ChatService         (services/chat.service,     src/src/server.ts)    *)
(*   provider adapters   (src/src/providers, src/unnamed/part_004)         *)
(* Times are milliseconds, as Date.now() and setTimeout count them.        *)
(***************************************************************************)
EXTENDS Integers, Sequences, FiniteSets, TLC

\* ------------------------------------------------------------------------
\* Bounds of the exploration
\* ------------------------------------------------------------------------
MaxRateLimit == 2
MaxChecks == 5
MaxNowRL == 120001
MaxConcurrency == 2
MaxMaxRetries == 4
MaxGateRetries == 2
MaxNow == 7000
MaxGateNow == 1000

Users == {"u1", "u2"}
RequestOrder == <<"r1", "r2", "r3">>
Requests == {RequestOrder[i] : i \in DOMAIN RequestOrder}
RLSteps == {30000, 59999}
Steps == {1000}
BackoffChoices == {0, 1000}

\* ------------------------------------------------------------------------
\* Program constants
\* ------------------------------------------------------------------------
WindowMs == 60000
MsPerSecond == 1000

VARIABLES
  now,                   \* Date.now()
  limits,                \* RateLimiter.limits : Map<userId, {count, resetAt}>
  maxRequestsPerMinute,  \* RateLimiter.maxRequestsPerMinute (config.rateLimitPerUser)
  cleanupInterval,       \* RateLimiter.cleanupInterval: "set" or "cleared"
  rlLog,                 \* observed direct checkLimit calls, oldest first
  activeRequests,        \* ConcurrencyLimiter.activeRequests
  maxConcurrency,        \* ConcurrencyLimiter.maxConcurrency (config.globalConcurrency)
  maxRetries,            \* config.maxRetries
  retryBackoffMs,        \* config.retryBackoffMs
  clients,               \* the providers whose client ChatService constructed
  reqs,                  \* per ChatService.chat call: its position and what it did
  adapter,               \* a provider client's chat called on its own
  validation             \* jsonValidator.validateResponse called on its own

rlVars == <<limits, maxRequestsPerMinute, cleanupInterval, rlLog>>
configVars == <<maxConcurrency, maxRetries, retryBackoffMs, clients>>
vars == <<now, limits, maxRequestsPerMinute, cleanupInterval, rlLog, activeRequests,
          maxConcurrency, maxRetries, retryBackoffMs, clients, reqs, adapter,
          validation>>

\* ------------------------------------------------------------------------
\* Helpers
\* ------------------------------------------------------------------------
\* (variant: rounds down)
FloorDiv(a, b) == a \div b

\* Math.ceil(a / b) for b > 0
CeilDiv(a, b) == -((-a) \div b)

EmptyMap == [u \in {} |-> [count |-> 0, resetAt |-> 0]]

MapSet(m, k, v) == [x \in (DOMAIN m) \cup {k} |-> IF x = k THEN v ELSE m[x]]

MapDelete(m, ks) == [x \in (DOMAIN m) \ ks |-> m[x]]

\* ------------------------------------------------------------------------
\* validateConfig: the constraints a started service satisfies
\* ------------------------------------------------------------------------
ValidRateLimit(n) == ~(n < 1)

\* ------------------------------------------------------------------------
\* RateLimiter
\* ------------------------------------------------------------------------
\* (variant: the limit test lets one call too many through)
CheckLimitOffByOne(lim, userId, t, max) ==
  IF userId \notin DOMAIN lim \/ t >= lim[userId].resetAt
  THEN [limits |-> MapSet(lim, userId, [count |-> 1, resetAt |-> t + WindowMs]),
        result |-> [allowed |-> TRUE]]
  ELSE IF lim[userId].count > max
  THEN [limits |-> lim,
        result |-> [allowed |-> FALSE,
                    retryAfter |-> CeilDiv(lim[userId].resetAt - t, MsPerSecond)]]
  ELSE [limits |-> MapSet(lim, userId, [count |-> lim[userId].count + 1,
                                        resetAt |-> lim[userId].resetAt]),
        result |-> [allowed |-> TRUE]]

\* (variant: an expired window is extended and incremented, not replaced)
CheckLimitNoReplace(lim, userId, t, max) ==
  IF userId \notin DOMAIN lim
  THEN [limits |-> MapSet(lim, userId, [count |-> 1, resetAt |-> t + WindowMs]),
        result |-> [allowed |-> TRUE]]
  ELSE IF t >= lim[userId].resetAt
  THEN [limits |-> MapSet(lim, userId, [count |-> lim[userId].count + 1,
                                        resetAt |-> t + WindowMs]),
        result |-> [allowed |-> TRUE]]
  ELSE IF lim[userId].count >= max
  THEN [limits |-> lim,
        result |-> [allowed |-> FALSE,
                    retryAfter |-> CeilDiv(lim[userId].resetAt - t, MsPerSecond)]]
  ELSE [limits |-> MapSet(lim, userId, [count |-> lim[userId].count + 1,
                                        resetAt |-> lim[userId].resetAt]),
        result |-> [allowed |-> TRUE]]

\* (variant: a rejected call is counted too)
CheckLimitCountsRejected(lim, userId, t, max) ==
  IF userId \notin DOMAIN lim \/ t >= lim[userId].resetAt
  THEN [limits |-> MapSet(lim, userId, [count |-> 1, resetAt |-> t + WindowMs]),
        result |-> [allowed |-> TRUE]]
  ELSE [limits |-> MapSet(lim, userId, [count |-> lim[userId].count + 1,
                                        resetAt |-> lim[userId].resetAt]),
        result |-> IF lim[userId].count >= max
                   THEN [allowed |-> FALSE,
                         retryAfter |-> CeilDiv(lim[userId].resetAt - t, MsPerSecond)]
                   ELSE [allowed |-> TRUE]]

\* (variant: a window is still open at the instant resetAt)
CheckLimitExpiredStrict(lim, userId, t, max) ==
  IF userId \notin DOMAIN lim \/ t > lim[userId].resetAt
  THEN [limits |-> MapSet(lim, userId, [count |-> 1, resetAt |-> t + WindowMs]),
        result |-> [allowed |-> TRUE]]
  ELSE IF lim[userId].count >= max
  THEN [limits |-> lim,
        result |-> [allowed |-> FALSE,
                    retryAfter |-> CeilDiv(lim[userId].resetAt - t, MsPerSecond)]]
  ELSE [limits |-> MapSet(lim, userId, [count |-> lim[userId].count + 1,
                                        resetAt |-> lim[userId].resetAt]),
        result |-> [allowed |-> TRUE]]

\* (variant: opening a window drops the entries of the other callers)
CheckLimitSingleEntry(lim, userId, t, max) ==
  IF userId \notin DOMAIN lim \/ t >= lim[userId].resetAt
  THEN [limits |-> MapSet(EmptyMap, userId, [count |-> 1, resetAt |-> t + WindowMs]),
        result |-> [allowed |-> TRUE]]
  ELSE IF lim[userId].count >= max
  THEN [limits |-> lim,
        result |-> [allowed |-> FALSE,
                    retryAfter |-> CeilDiv(lim[userId].resetAt - t, MsPerSecond)]]
  ELSE [limits |-> MapSet(lim, userId, [count |-> lim[userId].count + 1,
                                        resetAt |-> lim[userId].resetAt]),
        result |-> [allowed |-> TRUE]]

\* checkLimit(userId) at time t on map lim with maximum max:
\* the new map and the returned {allowed, retryAfter?}
CheckLimit(lim, userId, t, max) ==
  IF userId \notin DOMAIN lim \/ t >= lim[userId].resetAt
  THEN [limits |-> MapSet(lim, userId, [count |-> 1, resetAt |-> t + WindowMs]),
        result |-> [allowed |-> TRUE]]
  ELSE IF lim[userId].count >= max
  THEN [limits |-> lim,
        result |-> [allowed |-> FALSE,
                    retryAfter |-> CeilDiv(lim[userId].resetAt - t, MsPerSecond)]]
  ELSE [limits |-> MapSet(lim, userId, [count |-> lim[userId].count + 1,
                                        resetAt |-> lim[userId].resetAt]),
        result |-> [allowed |-> TRUE]]

\* (variant: the sweep also removes windows that end within the next minute)
CleanupMapEarly(lim, t) ==
  MapDelete(lim, {u \in DOMAIN lim : t + WindowMs >= lim[u].resetAt})

\* cleanup(): the map without the entries whose window has expired at t
CleanupMap(lim, t) == MapDelete(lim, {u \in DOMAIN lim : t >= lim[u].resetAt})

\* ------------------------------------------------------------------------
\* ServiceError values (ChatCompletionError)
\* ------------------------------------------------------------------------
NoDetails == [kind |-> "undefined"]

\* createError(code, message, retryable, details)
CreateError(code, message, retryable, details) ==
  [code |-> code, message |-> message, retryable |-> retryable, details |-> details]

\* the truthiness of error.retryable; a thrown value that is no ServiceError
\* has no such property
Retryable(error) == "retryable" \in DOMAIN error /\ error.retryable

Ok(response) == [ok |-> TRUE, response |-> response]
Fail(error) == [ok |-> FALSE, error |-> error]

\* ------------------------------------------------------------------------
\* Strings that the code takes apart are sequences of tokens
\* ------------------------------------------------------------------------
Includes(str, tok) == \E i \in 1..Len(str) : str[i] = tok

StartsWith(str, prefix) ==
  Len(str) >= Len(prefix) /\ SubSeq(str, 1, Len(prefix)) = prefix

\* a JSON number where a string is expected, a value with no string
\* methods: its tokens follow the tag "number"
JsonNumber(digits) == <<"number", digits>>

\* typeof value === "string"
IsString(value) == value = <<>> \/ value[1] # "number"

\* the TypeError of calling a string method on a value that has none, and of
\* reading a property of undefined: an Error with a message and no code
TypeError(message) == [message |-> message]

\* str.replace(prefix, "") for a str that starts with prefix
RemovePrefix(str, prefix) == SubSeq(str, Len(prefix) + 1, Len(str))

\* ------------------------------------------------------------------------
\* Model catalog
\* ------------------------------------------------------------------------
Providers == {"openai", "openrouter", "eigencloud"}

\* config/models.json, in file order
Catalog ==
  << [id |-> <<"openai", "-", "chatgpt">>, provider |-> "openai",
      model |-> <<"gpt", "-", "5", "-", "nano">>],
     [id |-> <<"openrouter", "-", "glm", "-", "free">>, provider |-> "openrouter",
      model |-> <<"z", "-", "ai/glm", ":", "free">>],
     [id |-> <<"eigencloud", "-", "gpt", "-", "oss">>, provider |-> "eigencloud",
      model |-> <<"gpt", "-", "oss">>],
     [id |-> <<"gpt", "-", "oss">>, provider |-> "eigencloud",
      model |-> <<"gpt", "-", "oss", ":", "120b">>] >>

NotFound == [found |-> FALSE]

\* modelCatalog.getModel(id)
GetModel(id) ==
  IF \E i \in 1..Len(Catalog) : Catalog[i].id = id
  THEN [found |-> TRUE,
        def |-> Catalog[CHOOSE i \in 1..Len(Catalog) : Catalog[i].id = id]]
  ELSE NotFound

\* modelCatalog.getModelByProviderAndModel(provider, model): the first match
GetModelByProviderAndModel(provider, model) ==
  LET hits == {i \in 1..Len(Catalog) :
                 Catalog[i].provider = provider /\ Catalog[i].model = model}
  IN IF hits = {} THEN NotFound
     ELSE [found |-> TRUE,
           def |-> Catalog[CHOOSE i \in hits : \A j \in hits : i <= j]]

\* (variant: the alias is looked up as it is)
MapModelIdUnchanged(model, provider) == model

\* ChatService.mapModelIdToCatalogId(model, provider)
MapModelIdToCatalogId(model, provider) ==
  IF Includes(model, "-") /\ ~Includes(model, ":") THEN model
  ELSE IF provider = "openrouter" /\ StartsWith(model, <<"openrouter", ":">>)
  THEN <<"openrouter", "-">> \o RemovePrefix(model, <<"openrouter", ":">>)
         \o <<"-", "free">>
  ELSE IF provider = "openai" /\ model = <<"gpt", "-", "5", "-", "nano">>
  THEN <<"openai", "-", "chatgpt">>
  ELSE IF provider = "eigencloud" /\ StartsWith(model, <<"eigencloud", ":">>)
  THEN <<"eigencloud", "-">> \o RemovePrefix(model, <<"eigencloud", ":">>)
  ELSE model

\* (variant: the provider and model lookup comes first)
ResolveModelPairFirst(model, provider) ==
  LET byPair == GetModelByProviderAndModel(provider, model)
  IN IF byPair.found THEN byPair ELSE GetModel(MapModelIdToCatalogId(model, provider))

\* the model lookup at the head of ChatService.chat
ResolveModel(model, provider) ==
  LET byId == GetModel(MapModelIdToCatalogId(model, provider))
  IN IF byId.found THEN byId ELSE GetModelByProviderAndModel(provider, model)

\* ------------------------------------------------------------------------
\* JsonValidator
\* ------------------------------------------------------------------------
\* JSON values: a primitive has its type and its text, an object has its
\* fields
Num(v) == [type |-> "number", value |-> v]
Str(v) == [type |-> "string", value |-> v]
Bool(v) == [type |-> "boolean", value |-> v]
Null == [type |-> "null", value |-> "null"]
Arr == [type |-> "array", value |-> "[]"]
Obj(fields) == [type |-> "object", fields |-> fields]
UndefinedValue == [type |-> "undefined", value |-> "undefined"]

NoFields == [f \in {} |-> Null]

\* the truthiness of a value
Truthy(v) ==
  /\ v.type \notin {"undefined", "null"}
  /\ v.type = "number" => v.value # "0"
  /\ v.type = "string" => v.value # ""
  /\ v.type = "boolean" => v.value # "false"

\* the strings s with s == +s
NumericText == {"0", "1", "5"}

\* the schema of the requests that ask for JSON, and one with two required
\* numbers; order is the order of the keys of properties
ResponseSchema ==
  [type |-> "object", required |-> <<"x">>, order |-> <<"x">>,
   properties |-> [x |-> "number"]]

TwoNumbersSchema ==
  [type |-> "object", required |-> <<"x", "y">>, order |-> <<"x", "y">>,
   properties |-> [x |-> "number", y |-> "number"]]

\* the validator was built with coerceTypes: a value that is not a number
\* is turned into one if it is a boolean, null, or a numeric string
CanCoerceToNumber(v) ==
  \/ v.type \in {"number", "boolean", "null"}
  \/ v.type = "string" /\ v.value # "" /\ v.value \in NumericText

CoerceToNumber(v) ==
  IF v.type = "number" THEN v
  ELSE IF v.type = "boolean" THEN Num(IF v.value = "true" THEN "1" ELSE "0")
  ELSE IF v.type = "null" THEN Num("0")
  ELSE Num(v.value)

\* one entry of validate.errors
Violation(path, keyword, message) ==
  [instancePath |-> path, keyword |-> keyword, message |-> message]

\* the errors of the keyword required: one for every required property
\* the payload does not have
MissingViolations(json, schema) ==
  LET missing == SelectSeq(schema.required, LAMBDA f : f \notin DOMAIN json.fields)
  IN [i \in 1..Len(missing) |->
        Violation("", "required", "must have required property '" \o missing[i] \o "'")]

\* the errors of the keyword properties: one for every property the payload
\* has whose value is not of the type and cannot be coerced to it
TypeViolations(json, schema) ==
  LET wrong == SelectSeq(schema.order,
                         LAMBDA f : /\ f \in DOMAIN json.fields
                                    /\ ~CanCoerceToNumber(json.fields[f]))
  IN [i \in 1..Len(wrong) |->
        Violation("/" \o wrong[i], "type", "must be " \o schema.properties[wrong[i]])]

\* the error of property f of the schema, if it has one: it is required
\* and the payload does not have it, or the payload has it with a value
\* that is not of the type and cannot be coerced to it
PropertyViolations(json, schema, f) ==
  IF f \notin DOMAIN json.fields
  THEN IF \E i \in DOMAIN schema.required : schema.required[i] = f
       THEN <<Violation("", "required", "must have required property '" \o f \o "'")>>
       ELSE <<>>
  ELSE IF ~CanCoerceToNumber(json.fields[f])
       THEN <<Violation("/" \o f, "type", "must be " \o schema.properties[f])>>
       ELSE <<>>

\* the errors of the properties named in keys, key by key
RECURSIVE KeyOrderViolations(_, _, _)
KeyOrderViolations(json, schema, keys) ==
  IF keys = <<>> THEN <<>>
  ELSE PropertyViolations(json, schema, Head(keys))
         \o KeyOrderViolations(json, schema, Tail(keys))

\* validate.errors for payload json, built with allErrors: nothing else is
\* checked when the payload is no object; otherwise the errors are listed
\* property by property, in the order of the keys of properties
Violations(json, schema) ==
  IF json.type # "object" THEN <<Violation("", "type", "must be object")>>
  ELSE KeyOrderViolations(json, schema, schema.order)

\* the order in which the keywords of one schema are evaluated is the
\* library's and differs between its versions: validate.errors is listed
\* property by property, or the errors of required come before those of
\* properties
ViolationOrders(json, schema) ==
  IF json.type # "object" THEN {Violations(json, schema)}
  ELSE {Violations(json, schema),
        MissingViolations(json, schema) \o TypeViolations(json, schema)}

\* the payload after validate(json): the properties that could be coerced
\* hold the coerced value
AfterValidate(json, schema) ==
  IF json.type # "object" THEN json
  ELSE Obj([f \in DOMAIN json.fields |->
              IF f \in DOMAIN schema.properties /\ CanCoerceToNumber(json.fields[f])
              THEN CoerceToNumber(json.fields[f])
              ELSE json.fields[f]])

\* `${err.instancePath || "root"} ${err.message}`
ViolationText(err) ==
  (IF err.instancePath = "" THEN "root" ELSE err.instancePath) \o " " \o err.message

\* (variant: only the first violation is reported in the message)
ViolationsTextFirst(errs) == ViolationText(errs[1])

\* errors.map(...).join("; ")
RECURSIVE ViolationsText(_)
ViolationsText(errs) ==
  IF Len(errs) = 1 THEN ViolationText(errs[1])
  ELSE ViolationText(errs[1]) \o "; " \o ViolationsText(Tail(errs))

\* (variant: a schema violation is marked retryable)
ValidateResponseRetryable(json, schema) ==
  LET errs == Violations(json, schema) IN
  IF errs # <<>>
  THEN [valid |-> FALSE,
        error |-> CreateError("SCHEMA_VALIDATION_FAILED",
                              "JSON response does not match schema: "
                                \o ViolationsText(errs),
                              TRUE,
                              [kind |-> "validation", errors |-> errs,
                               json |-> AfterValidate(json, schema)])]
  ELSE [valid |-> TRUE]

\* validateResponse(json, schema) when validate.errors is errs
ValidateResponseWith(json, schema, errs) ==
  IF errs # <<>>
  THEN [valid |-> FALSE,
        error |-> CreateError("SCHEMA_VALIDATION_FAILED",
                              "JSON response does not match schema: "
                                \o ViolationsText(errs),
                              FALSE,
                              [kind |-> "validation", errors |-> errs,
                               json |-> AfterValidate(json, schema)])]
  ELSE [valid |-> TRUE]

\* validateResponse(json, schema)
ValidateResponse(json, schema) ==
  ValidateResponseWith(json, schema, Violations(json, schema))

\* validateResponse has not been called
NotValidated == [pc |-> "idle"]

\* ------------------------------------------------------------------------
\* Provider adapters: what one upstream outcome becomes
\* ------------------------------------------------------------------------
\* An upstream outcome is
\*   [kind |-> "ok", content, alt, tokens, model]   status 200 with that
\*       message.content; alt is message.answer || message.reasoning ||
\*       message.text, tokens is usage.completion_tokens > 0, model is the
\*       model the answer names (<<>> when it names none)
\*   [kind |-> "http", status, msgTimeout]   a non-success status
\*   [kind |-> "thrown", hasCode, msgTimeout] the transport failed
\* content is "text" (not JSON), "empty", or the name of a JSON text:
\* "json_good" is {"x": 1}, "json_bad" is {"x": "abc"}, "json_null" is null.
IsJson(content) == content \in {"json_good", "json_bad", "json_null"}

\* JSON.parse of the content with that name; the json property of a response
\* holds the name, or "undefined" when nothing was parsed
JsonValue(name) ==
  CASE name = "json_good" -> Obj([x |-> Num("1")])
    [] name = "json_bad" -> Obj([x |-> Str("abc")])
    [] name = "json_null" -> Null
    [] OTHER -> UndefinedValue

Response(content, json, model) == [text |-> content, json |-> json, model |-> model]

\* (variant: a generic provider error is never retryable)
OpenAIHandleErrorNoRetry(o) ==
  IF o.kind \in {"http", "thrown"}
  THEN IF o.kind = "http" /\ o.status = 429
       THEN CreateError("PROVIDER_RATE_LIMITED", "OpenAI rate limit exceeded", TRUE,
                        [kind |-> "status", status |-> o.status])
       ELSE IF o.kind = "http" /\ o.status \in {401, 403}
       THEN CreateError("PROVIDER_AUTH_FAILED", "OpenAI authentication failed", FALSE,
                        [kind |-> "status", status |-> o.status])
       ELSE IF o.msgTimeout
       THEN CreateError("PROVIDER_TIMEOUT", "OpenAI request timed out", TRUE, NoDetails)
       ELSE CreateError("PROVIDER_ERROR", "OpenAI error", FALSE,
                        [kind |-> "status",
                         status |-> IF o.kind = "http" THEN o.status ELSE 0])
  ELSE CreateError("INTERNAL_ERROR", "Unknown error", FALSE, NoDetails)

\* OpenAIClient.handleError(error)
OpenAIHandleError(o) ==
  IF o.kind \in {"http", "thrown"}
  THEN IF o.kind = "http" /\ o.status = 429
       THEN CreateError("PROVIDER_RATE_LIMITED", "OpenAI rate limit exceeded", TRUE,
                        [kind |-> "status", status |-> o.status])
       ELSE IF o.kind = "http" /\ o.status \in {401, 403}
       THEN CreateError("PROVIDER_AUTH_FAILED", "OpenAI authentication failed", FALSE,
                        [kind |-> "status", status |-> o.status])
       ELSE IF o.msgTimeout
       THEN CreateError("PROVIDER_TIMEOUT", "OpenAI request timed out", TRUE, NoDetails)
       ELSE CreateError("PROVIDER_ERROR", "OpenAI error",
                        IF o.kind = "http" THEN o.status >= 500 ELSE FALSE,
                        [kind |-> "status",
                         status |-> IF o.kind = "http" THEN o.status ELSE 0])
  ELSE CreateError("INTERNAL_ERROR", "Unknown error", FALSE, NoDetails)

\* the content a client parses and returns: the text named by content
\* ("empty" is no text)
ParsedJson(hasSchema, content) ==
  IF hasSchema /\ content # "empty" THEN content ELSE "undefined"

\* OpenAIClient.chat(model, ..., responseSchema) once the upstream answered o
OpenAIChat(model, hasSchema, o) ==
  IF o.kind = "ok"
  THEN IF hasSchema /\ o.content # "empty" /\ ~IsJson(o.content)
       THEN \* the JSON_PARSE_FAILED object is caught and classified again
            Fail(OpenAIHandleError([kind |-> "parse"]))
       ELSE Ok(Response(o.content, ParsedJson(hasSchema, o.content), o.model))
  ELSE Fail(OpenAIHandleError(o))

\* handleHttpError(statusCode, responseText) of OpenRouterClient and
\* EigenCloudClient
HandleHttpError(statusCode) ==
  CreateError(IF statusCode \in {401, 403} THEN "PROVIDER_AUTH_FAILED"
              ELSE IF statusCode = 429 THEN "PROVIDER_RATE_LIMITED"
              ELSE "PROVIDER_ERROR",
              "HTTP error",
              statusCode = 429 \/ statusCode >= 500,
              [kind |-> "status", status |-> statusCode])

\* handleError(error) of OpenRouterClient and EigenCloudClient
HandleError(o) ==
  IF o.kind = "thrown" /\ o.msgTimeout
  THEN CreateError("PROVIDER_TIMEOUT", "request timed out", TRUE, NoDetails)
  ELSE CreateError("INTERNAL_ERROR", "Unknown error", FALSE, NoDetails)

\* the thrown transport error itself, when it already has a code and a message
RawError == [code |-> "TRANSPORT", message |-> "transport error"]

\* the content OpenRouterClient.chat takes from the answer: message.content,
\* and when that is empty and completion tokens were used, the first of
\* answer, reasoning and text that is not empty (the branch for a
\* message.content that is an object is never entered, an object being truthy)
OpenRouterContent(o) ==
  IF o.content # "empty" THEN o.content
  ELSE IF o.tokens THEN o.alt
  ELSE "empty"

\* the content EigenCloudClient.chat takes from the answer: message.content
EigenCloudContent(o) == o.content

\* response.model || model
ModelOr(reported, model) == IF reported # <<>> THEN reported ELSE model

\* the part OpenRouterClient.chat and EigenCloudClient.chat share, once the
\* upstream answered o and the content was taken from the answer
HttpClientChat(model, hasSchema, o, content) ==
  IF o.kind = "http" THEN Fail(HandleHttpError(o.status))
  ELSE IF o.kind = "thrown"
  THEN IF o.hasCode THEN Fail(RawError) ELSE Fail(HandleError(o))
  ELSE IF hasSchema /\ content # "empty" /\ ~IsJson(content)
  THEN Fail(CreateError("JSON_PARSE_FAILED", "Failed to parse JSON response", FALSE,
                        [kind |-> "content", content |-> content]))
  ELSE Ok(Response(content, ParsedJson(hasSchema, content), ModelOr(o.model, model)))

\* OpenRouterClient.chat(model, ..., responseSchema) once the upstream
\* answered o
OpenRouterChat(model, hasSchema, o) ==
  HttpClientChat(model, hasSchema, o,
                 IF o.kind = "ok" THEN OpenRouterContent(o) ELSE "empty")

\* EigenCloudClient.chat(model, ..., responseSchema) once the upstream
\* answered o
EigenCloudChat(model, hasSchema, o) ==
  HttpClientChat(model, hasSchema, o,
                 IF o.kind = "ok" THEN EigenCloudContent(o) ELSE "empty")

\* client.chat(...) of the provider's client once the upstream answered o
ClientChat(provider, model, hasSchema, o) ==
  IF provider = "openai" THEN OpenAIChat(model, hasSchema, o)
  ELSE IF provider = "openrouter" THEN OpenRouterChat(model, hasSchema, o)
  ELSE EigenCloudChat(model, hasSchema, o)

\* OpenRouterClient.chat rejects a placeholder model before any upstream call
IsPlaceholder(provider, model) ==
  provider = "openrouter" /\ StartsWith(model, <<"openrouter", ":">>)

\* a provider client's chat has not been called
IdleAdapter == [pc |-> "idle"]

\* ------------------------------------------------------------------------
\* ChatService
\* ------------------------------------------------------------------------
\* getClient(provider): the client, or the error thrown
GetClient(provider, cl) ==
  IF provider \in Providers
  THEN IF provider \in cl THEN [ok |-> TRUE]
       ELSE Fail(CreateError("PROVIDER_NOT_CONFIGURED", "provider not configured",
                             FALSE, NoDetails))
  ELSE Fail(CreateError("INVALID_REQUEST", "Unknown provider", FALSE, NoDetails))

\* the try block of executeWithRetry after client.chat settled with r:
\* the response is validated when a schema was given and JSON came back
AfterChat(r, hasSchema) ==
  IF r.ok /\ hasSchema /\ Truthy(JsonValue(r.response.json))
  THEN LET v == ValidateResponse(JsonValue(r.response.json), ResponseSchema)
       IN IF ~v.valid THEN Fail(v.error) ELSE r
  ELSE r

\* (variant: one attempt too many)
ShouldRetryOffByOne(error, attempt, max) == ~(~Retryable(error) \/ attempt > max)

\* (variant: the retryable flag is not consulted)
ShouldRetryAnyError(error, attempt, max) == ~(attempt >= max)

\* the catch block of executeWithRetry: is the failed attempt retried
ShouldRetry(error, attempt, max) == ~(~Retryable(error) \/ attempt >= max)

\* the longest delay a timer of the runtime takes
TIMEOUT_MAX == 2147483647

\* stands for every number above TIMEOUT_MAX: the numbers beyond it are not
\* told apart
AboveTimeoutMax == 0 - 1

\* backoffMs = retryBackoffMs * Math.pow(2, attempt - 1), a product that no
\* line of the code caps
BackoffMs(base, attempt) ==
  IF base > TIMEOUT_MAX \div (2 ^ (attempt - 1))
  THEN AboveTimeoutMax
  ELSE base * 2 ^ (attempt - 1)

\* the delay of the timer that setTimeout(resolve, ms) sets: a delay above
\* TIMEOUT_MAX or below 1 is set to 1
TimeoutDelay(ms) == IF ms = AboveTimeoutMax \/ ms < 1 THEN 1 ELSE ms

\* ------------------------------------------------------------------------
\* ConcurrencyLimiter
\* ------------------------------------------------------------------------
\* (variant: one call too many is admitted)
AtLimitOffByOne(active, max) == active > max

\* the test at the head of execute(fn)
AtLimit(active, max) == active >= max

\* (variant: the rejection is not marked retryable)
ConcurrencyErrorNotRetryable ==
  [code |-> "CONCURRENCY_LIMIT_EXCEEDED",
   message |-> "Service concurrency limit reached", retryable |-> FALSE]

ConcurrencyError ==
  [code |-> "CONCURRENCY_LIMIT_EXCEEDED",
   message |-> "Service concurrency limit reached", retryable |-> TRUE]

\* the counter after this.activeRequests++
Acquire(active) == active + 1

\* execute(fn) settles with what fn settled with (return await fn())
ExecuteOutcome(fnOutcome) == fnOutcome

\* (variant: the slot is released only when fn succeeded)
FinallySkipOnError(active, fnOutcome) == IF fnOutcome.ok THEN active - 1 ELSE active

\* the counter after the finally block, which runs whatever fn settled with
Finally(active, fnOutcome) == active - 1

\* ------------------------------------------------------------------------
\* HTTP layer (createServer): replies
\* ------------------------------------------------------------------------
Reply(status, body) == [status |-> status, body |-> body]

\* (variant: a concurrency rejection is answered 429)
StatusCodeBusy(code) ==
  IF code \in {"RATE_LIMIT_EXCEEDED", "CONCURRENCY_LIMIT_EXCEEDED"} THEN 429
  ELSE IF code = "INVALID_REQUEST" THEN 400
  ELSE IF code = "MODEL_NOT_FOUND" THEN 404
  ELSE 500

\* the status chosen in the catch block of POST /v1/chat
StatusCode(code) ==
  IF code = "RATE_LIMIT_EXCEEDED" THEN 429
  ELSE IF code = "INVALID_REQUEST" THEN 400
  ELSE IF code = "MODEL_NOT_FOUND" THEN 404
  ELSE 500

\* error.code && error.message
HasCodeAndMessage(error) ==
  /\ "code" \in DOMAIN error /\ error.code # ""
  /\ "message" \in DOMAIN error /\ error.message # ""

\* the properties of error that JSON keeps: a property whose value is
\* undefined is left out of the body
ErrorBody(error) ==
  LET base == [code |-> error.code, message |-> error.message]
      hasDetails == "details" \in DOMAIN error /\ error.details # NoDetails
      hasRetryable == "retryable" \in DOMAIN error
  IN IF hasDetails /\ hasRetryable
     THEN [code |-> error.code, message |-> error.message,
           details |-> error.details, retryable |-> error.retryable]
     ELSE IF hasDetails
     THEN [code |-> error.code, message |-> error.message, details |-> error.details]
     ELSE IF hasRetryable
     THEN [code |-> error.code, message |-> error.message,
           retryable |-> error.retryable]
     ELSE base

\* what the POST /v1/chat handler sends once chatService.chat settled
ChatRouteReply(outcome) ==
  IF outcome.ok THEN Reply(200, [success |-> TRUE, data |-> outcome.response])
  ELSE IF HasCodeAndMessage(outcome.error)
  THEN Reply(StatusCode(outcome.error.code),
             [success |-> FALSE, error |-> ErrorBody(outcome.error)])
  ELSE Reply(500, [success |-> FALSE,
                   error |-> [code |-> "INTERNAL_ERROR",
                              message |-> "Internal server error"]])

\* the 400 replies of the POST /v1/chat handler
InvalidRequestReply(message) ==
  Reply(400, [success |-> FALSE,
              error |-> [code |-> "INVALID_REQUEST", message |-> message]])

\* the handler of POST /v1/chat rejected with error: the catch block itself
\* threw, and the server's default error reply goes out, which carries the
\* message of the error
HandlerRejectedReply(error) ==
  Reply(500, [statusCode |-> 500, error |-> "Internal Server Error",
              message |-> error.message])

\* the 401 replies of the preHandler hook
UnauthorizedReply(message) ==
  Reply(401, [error |-> [code |-> "UNAUTHORIZED", message |-> message]])

\* no HTTP request: chat was called directly
NoHttp == [direct |-> TRUE]

\* ------------------------------------------------------------------------
\* One ChatService.chat call
\* ------------------------------------------------------------------------
NoInput == [userId |-> "", provider |-> "", model |-> <<>>, hasSchema |-> FALSE]

IdleRequest ==
  [pc |-> "idle", input |-> NoInput, actualModel |-> <<>>, attempt |-> 0,
   calls |-> 0, upstream |-> 0, delays |-> <<>>, early |-> FALSE,
   failedAt |-> 0, wakeAt |-> 0, gateAt |-> -1, acquired |-> 0, released |-> 0,
   seen |-> <<>>,
   lastError |-> [pending |-> TRUE], opOutcome |-> [pending |-> TRUE],
   outcome |-> [pending |-> TRUE], http |-> NoHttp, reply |-> [pending |-> TRUE],
   dispatched |-> <<>>]

\* (variant: a retryable failure before the dispatch waits and is tried again)
RejectedThenRetried(q, error) ==
  IF "retryable" \in DOMAIN error /\ error.retryable
  THEN [q EXCEPT !.pc = "backoff", !.lastError = error,
                 !.delays = Append(@, 1000), !.wakeAt = 1000]
  ELSE [q EXCEPT !.pc = "done", !.outcome = Fail(error),
                 !.reply = ChatRouteReply(Fail(error))]

\* chat() throws before the gate: nothing was acquired, nothing dispatched
Rejected(q, error) ==
  [q EXCEPT !.pc = "done", !.outcome = Fail(error),
            !.reply = ChatRouteReply(Fail(error))]

\* execute(fn) resumes after fn settled: the finally block releases the slot
\* and chat returns or throws what fn settled with
Unwind(q) ==
  [q EXCEPT !.pc = "done",
            !.outcome = ExecuteOutcome(q.opOutcome),
            !.reply = ChatRouteReply(ExecuteOutcome(q.opOutcome)),
            !.released = @ + 1]

\* executeWithRetry after its attempt number q.attempt settled with res at
\* time t: return, throw, or wait for the backoff; returning or throwing
\* settles fn, and execute, which awaits it, resumes in a later turn
SettleAttempt(q, res, t, max, base) ==
  IF ~res.ok /\ ShouldRetry(res.error, q.attempt, max)
  THEN [q EXCEPT !.pc = "backoff",
                 !.lastError = res.error,
                 !.failedAt = t,
                 !.delays = Append(@, BackoffMs(base, q.attempt)),
                 !.wakeAt = t + TimeoutDelay(BackoffMs(base, q.attempt))]
  ELSE [q EXCEPT !.pc = "settled",
                 !.lastError = IF res.ok THEN @ ELSE res.error,
                 !.opOutcome = res]

\* (variant: the adapter is given the caller's alias)
StartAttemptAlias(q, t, cl, max, base) ==
  LET gc == GetClient(q.input.provider, cl) IN
  IF ~gc.ok THEN SettleAttempt(q, gc, t, max, base)
  ELSE IF IsPlaceholder(q.input.provider, q.input.model)
  THEN SettleAttempt([q EXCEPT !.calls = @ + 1, !.dispatched = q.input.model],
                     Fail(CreateError("LLM_MODEL_NOT_CONFIGURED",
                                      "model placeholder must be replaced", FALSE,
                                      [kind |-> "model", model |-> q.input.model])),
                     t, max, base)
  ELSE [q EXCEPT !.pc = "inflight", !.calls = @ + 1, !.upstream = @ + 1,
                 !.dispatched = q.input.model]

\* executeWithRetry(..., attempt) up to the first suspension: getClient, then
\* client.chat(model, ...), which either throws at once or issues the
\* upstream call; dispatched is the model string the adapter was given
StartAttempt(q, t, cl, max, base) ==
  LET gc == GetClient(q.input.provider, cl) IN
  IF ~gc.ok THEN SettleAttempt(q, gc, t, max, base)
  ELSE IF IsPlaceholder(q.input.provider, q.actualModel)
  THEN SettleAttempt([q EXCEPT !.calls = @ + 1, !.dispatched = q.actualModel],
                     Fail(CreateError("LLM_MODEL_NOT_CONFIGURED",
                                      "model placeholder must be replaced", FALSE,
                                      [kind |-> "model", model |-> q.actualModel])),
                     t, max, base)
  ELSE [q EXCEPT !.pc = "inflight", !.calls = @ + 1, !.upstream = @ + 1,
                 !.dispatched = q.actualModel]

\* the last two entries of a sequence
LastTwo(sq) == IF Len(sq) <= 2 THEN sq ELSE SubSeq(sq, Len(sq) - 1, Len(sq))

\* Date.now() counts whole milliseconds, and so does the clock the timers
\* run on, each from an origin of its own: of one stretch of time the two
\* counts differ by at most this
ClockResolutionMs == 1

\* await new Promise((resolve) => setTimeout(resolve, backoffMs)): the
\* retry waits until the timer has fired. The timer was set when Date.now()
\* read wakeAt less its delay, and it fires once its delay is over on the
\* clock of the timers: t is a reading of Date.now() at which that can be
TimerDue(t, wakeAt) == t + ClockResolutionMs >= wakeAt

\* n milliseconds are no less than the delay of ms that was asked for
AtLeast(n, ms) == IF ms = AboveTimeoutMax THEN n > TIMEOUT_MAX ELSE n >= ms

\* the delay of ms that was asked for when Date.now() read failedAt can be
\* over on the clock of the timers when Date.now() reads t
DelayElapsed(t, failedAt, ms) == AtLeast(t + ClockResolutionMs - failedAt, ms)

\* (variant: the slot is given back while the request waits for its backoff)
CounterAfterBackoffReleases(active, q2) ==
  IF q2.pc \in {"done", "backoff"} THEN Finally(active, q2.opOutcome) ELSE active

\* (variant: each retry takes a slot of its own)
CounterAfterRetryAcquires(active, q2) ==
  IF q2.pc = "done" THEN Finally(active, q2.opOutcome)
  ELSE IF q2.pc = "inflight" /\ q2.attempt > 1 THEN Acquire(active)
  ELSE active

\* (variant: the finally block does not run)
CounterAfterNoRelease(active, q2) == active

\* the counter after a step that took request q to q2
CounterAfter(active, q2) ==
  IF q2.pc = "done" THEN Finally(active, q2.opOutcome) ELSE active

\* ------------------------------------------------------------------------
\* HMAC request signing (utils/hmac.ts)
\* ------------------------------------------------------------------------
TIMESTAMP_TOLERANCE_MS == 5 * 60 * 1000

\* the bytes of an HMAC-SHA256 digest
DigestBytes == 32

\* a JavaScript number: NaN, or an integer
NaN == [nan |-> TRUE, value |-> 0]
Number(n) == [nan |-> FALSE, value |-> n]

\* the decimal strings that occur as leading tokens of a timestamp header
DecimalValue ==
  [tok \in {"0", "300000", "300001", "-300000", "-300001"} |->
     CASE tok = "0" -> 0
       [] tok = "300000" -> 300000
       [] tok = "300001" -> 300001
       [] tok = "-300000" -> 0 - 300000
       [] tok = "-300001" -> 0 - 300001]

\* parseInt(str, 10): the integer the string begins with, whatever follows
\* it, or NaN when it does not begin with one
ParseInt(str) ==
  IF Len(str) > 0 /\ str[1] \in DOMAIN DecimalValue
  THEN Number(DecimalValue[str[1]])
  ELSE NaN

IsNaN(v) == v.nan

Abs(n) == IF n < 0 THEN 0 - n ELSE n

\* method.toUpperCase()
ToUpperCase(method) ==
  CASE method = "get" -> "GET"
    [] method = "post" -> "POST"
    [] OTHER -> method

\* the template string `${ts}:${method.toUpperCase()}:${path}:${body}`
Payload(ts, method, path, body) ==
  ts \o <<":", ToUpperCase(method), ":">> \o path \o <<":">> \o body

\* HMAC-SHA256 under the key, as a digest that is equal for equal key and
\* payload only
HmacDigest(secret, payload) == [secret |-> secret, payload |-> payload]

\* a hex string is a digest followed by a tail of further characters
HexString(digest, tail) == [digest |-> digest, tail |-> tail]

\* signRequest(secret, method, path, body, timestamp) called at time t
SignRequest(secret, method, path, body, timestamp, t) ==
  LET ts == IF timestamp = <<>> THEN <<ToString(t)>> ELSE timestamp
  IN [timestamp |-> ts,
      signature |-> HexString(HmacDigest(secret, Payload(ts, method, path, body)), "")]

\* Buffer.from(str, "hex"): decoding stops at the first character pair that
\* is not hexadecimal; the tail "ab" is one more byte, the tail "zz" none
FromHex(str) ==
  [digest |-> str.digest, extra |-> IF str.tail = "ab" THEN 1 ELSE 0]

BufferLength(buf) == DigestBytes + buf.extra

\* (variant: the tolerance is exclusive)
VerifyRequestStrict(secret, method, path, body, timestamp, signature, t) ==
  LET requestTime == ParseInt(timestamp)
      expected == SignRequest(secret, method, path, body, timestamp, t).signature
      sigBuffer == FromHex(signature)
      expectedBuffer == FromHex(expected)
  IN IF IsNaN(requestTime)
     THEN [valid |-> FALSE, error |-> "Invalid timestamp format"]
     ELSE IF Abs(t - requestTime.value) >= TIMESTAMP_TOLERANCE_MS
     THEN [valid |-> FALSE, error |-> "Request expired or timestamp too far in future"]
     ELSE IF BufferLength(sigBuffer) # BufferLength(expectedBuffer)
     THEN [valid |-> FALSE, error |-> "Invalid signature"]
     ELSE IF sigBuffer # expectedBuffer
     THEN [valid |-> FALSE, error |-> "Invalid signature"]
     ELSE [valid |-> TRUE]

\* verifyRequest(secret, method, path, body, timestamp, signature) at time t
VerifyRequest(secret, method, path, body, timestamp, signature, t) ==
  LET requestTime == ParseInt(timestamp)
      expected == SignRequest(secret, method, path, body, timestamp, t).signature
      sigBuffer == FromHex(signature)
      expectedBuffer == FromHex(expected)
  IN IF IsNaN(requestTime)
     THEN [valid |-> FALSE, error |-> "Invalid timestamp format"]
     ELSE IF Abs(t - requestTime.value) > TIMESTAMP_TOLERANCE_MS
     THEN [valid |-> FALSE, error |-> "Request expired or timestamp too far in future"]
     ELSE IF BufferLength(sigBuffer) # BufferLength(expectedBuffer)
     THEN [valid |-> FALSE, error |-> "Invalid signature"]
     ELSE IF sigBuffer # expectedBuffer
     THEN [valid |-> FALSE, error |-> "Invalid signature"]
     ELSE [valid |-> TRUE]

\* ------------------------------------------------------------------------
\* Specification of the RateLimiter on its own
\* ------------------------------------------------------------------------
InitRL ==
  /\ now = 0
  /\ limits = EmptyMap
  /\ maxRequestsPerMinute \in {n \in 1..MaxRateLimit : ValidRateLimit(n)}
  /\ rlLog = <<>>
  /\ cleanupInterval = "set"
  /\ activeRequests = 0
  /\ maxConcurrency = 1
  /\ maxRetries = 0
  /\ retryBackoffMs = 0
  /\ clients = {}
  /\ reqs = [r \in Requests |-> IdleRequest]
  /\ adapter = IdleAdapter
  /\ validation = NotValidated

\* a direct call of checkLimit(u)
CheckLimitCall(u) ==
  /\ Len(rlLog) < MaxChecks
  /\ LET r == CheckLimit(limits, u, now, maxRequestsPerMinute)
     IN /\ limits' = r.limits
        /\ rlLog' = Append(rlLog, [userId |-> u, at |-> now, result |-> r.result,
                                   resetAt |-> r.limits[u].resetAt])
  /\ UNCHANGED <<now, maxRequestsPerMinute, cleanupInterval, activeRequests, configVars, adapter, validation, reqs>>

\* the setInterval callback
Cleanup ==
  /\ cleanupInterval = "set"
  /\ limits' = CleanupMap(limits, now)
  /\ UNCHANGED <<now, maxRequestsPerMinute, cleanupInterval, rlLog, activeRequests, configVars, adapter, validation, reqs>>

\* RateLimiter.destroy(), also called by ChatService.destroy()
Destroy ==
  /\ cleanupInterval' = "cleared"
  /\ limits' = EmptyMap
  /\ UNCHANGED <<now, maxRequestsPerMinute, rlLog, activeRequests, configVars, adapter,
                 validation, reqs>>

\* time passes
TickRL ==
  /\ \E d \in RLSteps : now + d <= MaxNowRL /\ now' = now + d
  /\ UNCHANGED <<rlVars, activeRequests, configVars, adapter, validation, reqs>>

NextRL ==
  \/ \E u \in Users : CheckLimitCall(u)
  \/ Cleanup
  \/ Destroy
  \/ TickRL

SpecRL == InitRL /\ [][NextRL]_vars

\* ------------------------------------------------------------------------
\* Specification of the service: concurrent ChatService.chat calls.
\* No rate window expires within the horizon MaxGateNow, so the sweep (see
\* SpecRL) would find nothing to remove and is left out; destroy() is in
\* SpecRL and SpecShutdown.
\* ------------------------------------------------------------------------
ValidConcurrency(n) == ~(n < 1)
ValidMaxRetries(n) == ~(n < 0)
ValidBackoff(n) == ~(n < 0)

GptNano == <<"gpt", "-", "5", "-", "nano">>

RequestInputs ==
  { [userId |-> "u1", provider |-> "openai", model |-> GptNano, hasSchema |-> FALSE],
    [userId |-> "u1", provider |-> "openai", model |-> <<"openai", "-", "chatgpt">>,
     hasSchema |-> TRUE],
    [userId |-> "u2", provider |-> "openrouter", model |-> <<"openrouter", ":", "glm">>,
     hasSchema |-> TRUE],
    [userId |-> "u2", provider |-> "eigencloud",
     model |-> <<"eigencloud", ":", "gpt", "-", "oss">>, hasSchema |-> FALSE],
    [userId |-> "u2", provider |-> "eigencloud", model |-> <<"gpt", "-", "oss">>,
     hasSchema |-> FALSE],
    [userId |-> "u2", provider |-> "eigencloud",
     model |-> <<"gpt", "-", "oss", ":", "120b">>, hasSchema |-> FALSE],
    [userId |-> "u1", provider |-> "openrouter", model |-> <<"openrouter", ":", "nope">>,
     hasSchema |-> FALSE],
    [userId |-> "u1", provider |-> "openai",
     model |-> <<"openrouter", "-", "glm", "-", "free">>, hasSchema |-> FALSE] }

\* the model name the upstream reports in its answer
ReportedModel == <<"gpt", "-", "5", "-", "nano", "-", "2025">>

\* status 200 with this content, nothing in the other message fields, the
\* model reported
Plain(content) ==
  [kind |-> "ok", content |-> content, alt |-> "empty", tokens |-> TRUE,
   model |-> ReportedModel]

OkOutcomes ==
  [kind : {"ok"}, content : {"text", "json_good", "json_bad", "json_null", "empty"},
   alt : {"empty", "text", "json_bad"}, tokens : BOOLEAN, model : {ReportedModel, <<>>}]

UpstreamOutcomes ==
  {o \in OkOutcomes :
     \/ o = Plain(o.content)
     \/ o.content = "text" /\ o.alt = "empty" /\ o.tokens /\ o.model = <<>>
     \/ o.content = "empty" /\ o.model = ReportedModel}
  \cup [kind : {"http"}, status : {400, 401, 429, 500}, msgTimeout : {FALSE}]
  \cup [kind : {"http"}, status : {504}, msgTimeout : {TRUE}]
  \cup [kind : {"thrown"}, hasCode : BOOLEAN, msgTimeout : BOOLEAN]

\* the inputs and upstream outcomes drawn when calls run concurrently
GateInputs ==
  {in \in RequestInputs :
     in.provider # "eigencloud" /\ in.model # <<"openrouter", "-", "glm", "-", "free">>}

GateOutcomes ==
  {o \in UpstreamOutcomes :
     \/ o \in {Plain("json_good"), Plain("json_bad")}
     \/ o.kind = "http" /\ o.status \in {500}}

\* the calls are interchangeable: they are numbered in the order they arrive
ArrivedBefore(r) ==
  \A i, j \in DOMAIN RequestOrder :
    (RequestOrder[j] = r /\ i < j) => reqs[RequestOrder[i]].pc # "idle"

Init ==
  /\ now = 0
  /\ limits = EmptyMap
  /\ maxRequestsPerMinute \in {n \in 1..MaxRateLimit : ValidRateLimit(n)}
  /\ rlLog = <<>>
  /\ cleanupInterval = "set"
  /\ activeRequests = 0
  /\ maxConcurrency \in {n \in 0..MaxConcurrency : ValidConcurrency(n)}
  /\ maxRetries \in {n \in 0..MaxGateRetries : ValidMaxRetries(n)}
  /\ retryBackoffMs = 1000
  /\ clients = Providers
  /\ reqs = [r \in Requests |-> IdleRequest]
  /\ adapter = IdleAdapter
  /\ validation = NotValidated

\* (variant: the rate limit is checked and counted before the model is
\* resolved)
ChatFromRateFirst(r, in, h) ==
  /\ reqs[r].pc = (IF h = NoHttp THEN "idle" ELSE "hooked")
  /\   LET q == [reqs[r] EXCEPT !.input = in, !.http = h]
           md == ResolveModel(in.model, in.provider)
           rl == CheckLimit(limits, in.userId, now, maxRequestsPerMinute)
       IN IF ~rl.result.allowed
          THEN /\ reqs' = [reqs EXCEPT ![r] =
                          Rejected(q, CreateError("RATE_LIMIT_EXCEEDED",
                                                  "Rate limit exceeded for user", TRUE,
                                                  [kind |-> "retryAfter",
                                                   retryAfter |-> rl.result.retryAfter]))]
               /\ limits' = rl.limits
               /\ UNCHANGED activeRequests
          ELSE IF ~md.found
          THEN /\ reqs' = [reqs EXCEPT ![r] =
                          Rejected(q, CreateError("MODEL_NOT_FOUND", "Model not found",
                                                  FALSE, NoDetails))]
               /\ limits' = rl.limits
               /\ UNCHANGED activeRequests
          ELSE IF AtLimit(activeRequests, maxConcurrency)
          THEN /\ reqs' = [reqs EXCEPT ![r] =
                          Rejected([q EXCEPT !.gateAt = activeRequests],
                                   ConcurrencyError)]
               /\ limits' = rl.limits
               /\ UNCHANGED activeRequests
          ELSE LET q2 == StartAttempt([q EXCEPT !.actualModel = md.def.model,
                                                !.gateAt = activeRequests,
                                                !.attempt = 1, !.acquired = @ + 1],
                                      now, clients, maxRetries, retryBackoffMs)
               IN /\ reqs' = [reqs EXCEPT ![r] = q2]
                  /\ limits' = rl.limits
                  /\ activeRequests' = CounterAfter(Acquire(activeRequests), q2)
  /\ UNCHANGED <<now, maxRequestsPerMinute, cleanupInterval, rlLog, configVars, adapter, validation>>

\* (variant: a rejection by the gate takes the rate count back)
ChatFromGateRollsBack(r, in, h) ==
  /\ reqs[r].pc = (IF h = NoHttp THEN "idle" ELSE "hooked")
  /\   LET q == [reqs[r] EXCEPT !.input = in, !.http = h]
           md == ResolveModel(in.model, in.provider)
           rl == CheckLimit(limits, in.userId, now, maxRequestsPerMinute)
       IN IF ~IsString(in.model)
          THEN /\ reqs' = [reqs EXCEPT ![r] =
                          Rejected(q, TypeError("model.includes is not a function"))]
               /\ UNCHANGED <<limits, activeRequests>>
          ELSE IF ~md.found
          THEN /\ reqs' = [reqs EXCEPT ![r] =
                          Rejected(q, CreateError("MODEL_NOT_FOUND", "Model not found",
                                                  FALSE, NoDetails))]
               /\ UNCHANGED <<limits, activeRequests>>
          ELSE IF ~rl.result.allowed
          THEN /\ reqs' = [reqs EXCEPT ![r] =
                          Rejected(q, CreateError("RATE_LIMIT_EXCEEDED",
                                                  "Rate limit exceeded for user", TRUE,
                                                  [kind |-> "retryAfter",
                                                   retryAfter |-> rl.result.retryAfter]))]
               /\ limits' = rl.limits
               /\ UNCHANGED activeRequests
          ELSE IF AtLimit(activeRequests, maxConcurrency)
          THEN /\ reqs' = [reqs EXCEPT ![r] =
                          Rejected([q EXCEPT !.gateAt = activeRequests],
                                   ConcurrencyError)]
               /\ limits' = limits
               /\ UNCHANGED activeRequests
          ELSE LET q2 == StartAttempt([q EXCEPT !.actualModel = md.def.model,
                                                !.gateAt = activeRequests,
                                                !.attempt = 1, !.acquired = @ + 1],
                                      now, clients, maxRetries, retryBackoffMs)
               IN /\ reqs' = [reqs EXCEPT ![r] = q2]
                  /\ limits' = rl.limits
                  /\ activeRequests' = CounterAfter(Acquire(activeRequests), q2)
  /\ UNCHANGED <<now, maxRequestsPerMinute, cleanupInterval, rlLog, configVars, adapter, validation>>

\* ChatService.chat(request), run to its first suspension; h is the HTTP
\* request whose handler made the call
ChatFrom(r, in, h) ==
  /\ reqs[r].pc = (IF h = NoHttp THEN "idle" ELSE "hooked")
  /\   LET q == [reqs[r] EXCEPT !.input = in, !.http = h]
           md == ResolveModel(in.model, in.provider)
           rl == CheckLimit(limits, in.userId, now, maxRequestsPerMinute)
       IN IF ~IsString(in.model)
          THEN /\ reqs' = [reqs EXCEPT ![r] =
                          Rejected(q, TypeError("model.includes is not a function"))]
               /\ UNCHANGED <<limits, activeRequests>>
          ELSE IF ~md.found
          THEN /\ reqs' = [reqs EXCEPT ![r] =
                          Rejected(q, CreateError("MODEL_NOT_FOUND", "Model not found",
                                                  FALSE, NoDetails))]
               /\ UNCHANGED <<limits, activeRequests>>
          ELSE IF ~rl.result.allowed
          THEN /\ reqs' = [reqs EXCEPT ![r] =
                          Rejected(q, CreateError("RATE_LIMIT_EXCEEDED",
                                                  "Rate limit exceeded for user", TRUE,
                                                  [kind |-> "retryAfter",
                                                   retryAfter |-> rl.result.retryAfter]))]
               /\ limits' = rl.limits
               /\ UNCHANGED activeRequests
          ELSE IF AtLimit(activeRequests, maxConcurrency)
          THEN /\ reqs' = [reqs EXCEPT ![r] =
                          Rejected([q EXCEPT !.gateAt = activeRequests],
                                   ConcurrencyError)]
               /\ limits' = rl.limits
               /\ UNCHANGED activeRequests
          ELSE LET q2 == StartAttempt([q EXCEPT !.actualModel = md.def.model,
                                                !.gateAt = activeRequests,
                                                !.attempt = 1, !.acquired = @ + 1],
                                      now, clients, maxRetries, retryBackoffMs)
               IN /\ reqs' = [reqs EXCEPT ![r] = q2]
                  /\ limits' = rl.limits
                  /\ activeRequests' = CounterAfter(Acquire(activeRequests), q2)
  /\ UNCHANGED <<now, maxRequestsPerMinute, cleanupInterval, rlLog, configVars, adapter, validation>>

\* ChatService.chat(request) called directly
Chat(r, in) == ChatFrom(r, in, NoHttp)

\* promise continuations are pending: they run before any timer or network
\* callback
Draining == \E r \in Requests : reqs[r].pc \in {"settled", "hooked"}

\* execute(fn) of request r resumes: finally, then chat settles
ExecuteReturns(r) ==
  /\ reqs[r].pc = "settled"
  /\ LET q2 == Unwind(reqs[r])
     IN /\ reqs' = [reqs EXCEPT ![r] = q2]
        /\ activeRequests' = CounterAfter(activeRequests, q2)
  /\ UNCHANGED <<now, rlVars, configVars, adapter, validation>>

\* the upstream call of request r settles with outcome o
ProviderReturns(r, o) ==
  /\ reqs[r].pc = "inflight"
  /\ ~Draining
  /\ LET q == reqs[r]
         res == AfterChat(ClientChat(q.input.provider, q.actualModel,
                                     q.input.hasSchema, o), q.input.hasSchema)
         q2 == SettleAttempt([q EXCEPT !.seen = LastTwo(Append(@, o))], res, now,
                             maxRetries, retryBackoffMs)
     IN /\ reqs' = [reqs EXCEPT ![r] = q2]
        /\ activeRequests' = CounterAfter(activeRequests, q2)
  /\ UNCHANGED <<now, rlVars, configVars, adapter, validation>>

\* the backoff timer of request r fires: executeWithRetry(..., attempt + 1)
BackoffElapsed(r) ==
  /\ reqs[r].pc = "backoff"
  /\ ~Draining
  /\ TimerDue(now, reqs[r].wakeAt)
  /\ LET q == reqs[r]
         over == DelayElapsed(now, q.failedAt, q.delays[Len(q.delays)])
         waited == [q EXCEPT !.early = @ \/ ~over, !.failedAt = 0, !.wakeAt = 0]
         q2 == StartAttempt([waited EXCEPT !.attempt = @ + 1], now, clients,
                            maxRetries, retryBackoffMs)
     IN /\ reqs' = [reqs EXCEPT ![r] = q2]
        /\ activeRequests' = CounterAfter(activeRequests, q2)
  /\ UNCHANGED <<now, rlVars, configVars, adapter, validation>>

\* the steps of the clock to the readings of Date.now() at which a backoff
\* timer that is running fires: the first at which it can, and the one at
\* which its delay is over by Date.now() as well
TimerSteps ==
  {d \in UNION {{reqs[r].wakeAt - ClockResolutionMs - now, reqs[r].wakeAt - now} :
                  r \in {x \in Requests : reqs[x].pc = "backoff"}} : d > 0}

\* time passes, up to a horizon; Date.now() may have moved on between any
\* two steps
Tick(steps, horizon) ==
  /\ \E d \in steps : now + d <= horizon /\ now' = now + d
  /\ UNCHANGED <<rlVars, activeRequests, configVars, adapter, validation, reqs>>

Next ==
  \/ \E r \in Requests : \E in \in GateInputs : ArrivedBefore(r) /\ Chat(r, in)
  \/ \E r \in Requests : \E o \in GateOutcomes : ProviderReturns(r, o)
  \/ \E r \in Requests : BackoffElapsed(r)
  \/ \E r \in Requests : ExecuteReturns(r)
  \/ Tick(Steps, MaxGateNow)

Spec == Init /\ [][Next]_vars

\* ------------------------------------------------------------------------
\* Specification of the service around its shutdown: concurrent chat calls
\* of two callers, and ChatService.destroy(), which closeGracefully calls
\* before the server is closed. A call may arrive, and a call in flight may
\* go on, after destroy().
\* ------------------------------------------------------------------------
ShutdownInputs ==
  {in \in GateInputs : in.model \in {GptNano, <<"openrouter", ":", "glm">>}}

ShutdownOutcomes == GateOutcomes \ {Plain("json_bad")}

NextShutdown ==
  \/ \E r \in Requests : \E in \in ShutdownInputs : ArrivedBefore(r) /\ Chat(r, in)
  \/ \E r \in Requests : \E o \in ShutdownOutcomes : ProviderReturns(r, o)
  \/ \E r \in Requests : BackoffElapsed(r)
  \/ \E r \in Requests : ExecuteReturns(r)
  \/ Destroy
  \/ Tick(Steps, MaxGateNow)

SpecShutdown == Init /\ [][NextShutdown]_vars

\* ------------------------------------------------------------------------
\* Specification of concurrent chat calls whose provider calls settle and
\* whose backoff timers fire
\* ------------------------------------------------------------------------
LiveRequests == {"r1", "r2"}

\* the requests of one caller
LiveInputs == {in \in GateInputs : in.userId = "u1"}

LiveOutcomes ==
  {o \in UpstreamOutcomes :
     \/ o = Plain("text")
     \/ o.kind = "http" /\ o.status \in {400, 500}}

\* time passes: up to the horizon, and beyond it while a backoff timer is
\* still to fire
TickLive ==
  /\ \E d \in Steps :
       /\ \/ now + d <= MaxGateNow
          \/ \E r \in Requests : reqs[r].pc = "backoff" /\ ~TimerDue(now, reqs[r].wakeAt)
       /\ now' = now + d
  /\ UNCHANGED <<rlVars, activeRequests, configVars, adapter, validation, reqs>>

\* the provider call of request r settles, one way or another
ProviderSettles(r) == \E o \in LiveOutcomes : ProviderReturns(r, o)

NextLive ==
  \/ \E r \in LiveRequests : \E in \in LiveInputs : ArrivedBefore(r) /\ Chat(r, in)
  \/ \E r \in LiveRequests : ProviderSettles(r)
  \/ \E r \in LiveRequests : BackoffElapsed(r)
  \/ \E r \in LiveRequests : ExecuteReturns(r)
  \/ TickLive

\* every provider call returns or fails within the request timeout, every
\* timer that was set fires, every pending continuation runs, and time
\* passes
Fairness ==
  /\ \A r \in LiveRequests : WF_vars(ProviderSettles(r))
  /\ \A r \in LiveRequests : WF_vars(BackoffElapsed(r))
  /\ \A r \in LiveRequests : WF_vars(ExecuteReturns(r))
  /\ WF_vars(TickLive)

SpecLive == Init /\ [][NextLive]_vars /\ Fairness

\* ------------------------------------------------------------------------
\* Specification of one ChatService.chat call with every upstream outcome
\* ------------------------------------------------------------------------
InitRetry ==
  /\ now = 0
  /\ limits = EmptyMap
  /\ maxRequestsPerMinute \in {n \in {MaxRateLimit} : ValidRateLimit(n)}
  /\ rlLog = <<>>
  /\ cleanupInterval = "set"
  /\ activeRequests = 0
  /\ maxConcurrency \in {n \in {MaxConcurrency} : ValidConcurrency(n)}
  /\ maxRetries \in {n \in 0..MaxMaxRetries : ValidMaxRetries(n)}
  /\ retryBackoffMs \in {n \in BackoffChoices : ValidBackoff(n)}
  /\ clients \in {{"openai", "openrouter"}, Providers}
  /\ reqs = [r \in Requests |-> IdleRequest]
  /\ adapter = IdleAdapter
  /\ validation = NotValidated

NextRetry ==
  \/ \E in \in RequestInputs : Chat("r1", in)
  \/ \E o \in UpstreamOutcomes : ProviderReturns("r1", o)
  \/ BackoffElapsed("r1")
  \/ ExecuteReturns("r1")
  \/ Tick(Steps, MaxNow)

SpecRetry == InitRetry /\ [][NextRetry]_vars

\* ------------------------------------------------------------------------
\* Specification of one ChatService.chat call and its backoff timers, with
\* a retryBackoffMs whose doubling passes TIMEOUT_MAX: validateConfig asks of
\* retryBackoffMs only that it is not negative. The clock also steps to the
\* readings of Date.now() at which the timer that is running fires, and the
\* sweep of the rate limiter runs.
\* ------------------------------------------------------------------------
LongBackoffMs == 1073741824

TimerBackoffChoices == {1000, LongBackoffMs}

MaxTimerNow == LongBackoffMs + MaxNow

InitTimer ==
  /\ now = 0
  /\ limits = EmptyMap
  /\ maxRequestsPerMinute \in {n \in {MaxRateLimit} : ValidRateLimit(n)}
  /\ rlLog = <<>>
  /\ cleanupInterval = "set"
  /\ activeRequests = 0
  /\ maxConcurrency \in {n \in {MaxConcurrency} : ValidConcurrency(n)}
  /\ maxRetries \in {n \in 0..MaxMaxRetries : ValidMaxRetries(n)}
  /\ retryBackoffMs \in {n \in TimerBackoffChoices : ValidBackoff(n)}
  /\ clients = Providers
  /\ reqs = [r \in Requests |-> IdleRequest]
  /\ adapter = IdleAdapter
  /\ validation = NotValidated

TimerInputs == {in \in RequestInputs : in.model = GptNano}

TimerOutcomes ==
  {o \in UpstreamOutcomes :
     \/ o = Plain("text")
     \/ o.kind = "http" /\ o.status \in {400, 500}}

NextTimer ==
  \/ \E in \in TimerInputs : Chat("r1", in)
  \/ \E o \in TimerOutcomes : ProviderReturns("r1", o)
  \/ BackoffElapsed("r1")
  \/ ExecuteReturns("r1")
  \/ ~Draining /\ Cleanup
  \/ Tick(Steps, MaxNow)
  \/ Tick(TimerSteps, MaxTimerNow)

SpecTimer == InitTimer /\ [][NextTimer]_vars

\* ------------------------------------------------------------------------
\* HTTP layer (createServer): requests, the preHandler hook and the routes
\* ------------------------------------------------------------------------
\* config.hmacSecret, and a key that is not it
SharedSecret == "shared-secret"
OtherSecret == "other-secret"

NoHeader == [absent |-> TRUE]
NoSigner == [none |-> TRUE]
Undefined == [kind |-> "undefined"]

\* JSON text is a sequence of tokens; " " is insignificant whitespace
NotSpace(tok) == tok # " "

\* JSON.parse(text): the value, which does not remember the whitespace
JsonParse(text) == [json |-> SelectSeq(text, NotSpace)]

\* JSON.stringify(value): the text without any whitespace
JsonStringify(value) == value.json

\* request.body: the parsed body, undefined when no body was sent
RequestBody(h) == IF h.rawBody = <<>> THEN Undefined ELSE JsonParse(h.rawBody)

\* the chat requests that occur as bodies, by the name in the JSON text
ChatBodies ==
  [name \in {"b1", "b2", "b3", "bBogus", "bNumModel", "bNoUser", "bNoMessages"} |->
     CASE name = "b1" ->
            [provider |-> "openai", model |-> GptNano, messages |-> "some",
             userId |-> "u1", hasSchema |-> FALSE]
       [] name = "b2" ->
            [provider |-> "openrouter", model |-> <<"openrouter", ":", "nope">>,
             messages |-> "some", userId |-> "u1", hasSchema |-> FALSE]
       [] name = "b3" ->
            [provider |-> "openrouter", model |-> <<"openrouter", ":", "glm">>,
             messages |-> "some", userId |-> "u1", hasSchema |-> TRUE]
       [] name = "bBogus" ->
            [provider |-> "bogus", model |-> <<"openai", "-", "chatgpt">>,
             messages |-> "some", userId |-> "u2", hasSchema |-> FALSE]
       [] name = "bNumModel" ->
            [provider |-> "openai", model |-> JsonNumber("5"), messages |-> "some",
             userId |-> "u2", hasSchema |-> FALSE]
       [] name = "bNoUser" ->
            [provider |-> "openai", model |-> GptNano, messages |-> "some",
             userId |-> "", hasSchema |-> FALSE]
       [] name = "bNoMessages" ->
            [provider |-> "openai", model |-> GptNano, messages |-> "empty",
             userId |-> "u1", hasSchema |-> FALSE]]

JsonText(name) == <<"{", name, "}">>
JsonTextSpaced(name) == <<"{", " ", name, "}">>

\* the fields of a parsed chat body
BodyFields(value) == ChatBodies[value.json[2]]

\* the request handed to chatService.chat
ChatInput(b) ==
  [userId |-> b.userId, provider |-> b.provider, model |-> b.model,
   hasSchema |-> b.hasSchema]

\* the x-signature header of request h: what its signer computed, followed
\* by the tail that was appended to it
SignatureHeader(h, t) ==
  IF h.signer = NoSigner THEN NoHeader
  ELSE HexString(SignRequest(h.signer.secret, h.signer.method, h.signer.path,
                             h.signer.body, h.signer.timestamp, t).signature.digest,
                 h.sigTail)

\* the string the preHandler hook verifies the signature over
BodyStr(h) ==
  IF RequestBody(h) = Undefined THEN <<>> ELSE JsonStringify(RequestBody(h))

\* (variant: a request without the headers is let through)
PreHandlerLax(h, secret, t) ==
  IF h.url = <<"/health">> \/ h.url = <<"/ready">> THEN [pass |-> TRUE]
  ELSE IF h.timestamp = <<>> \/ SignatureHeader(h, t) = NoHeader
  THEN [pass |-> TRUE]
  ELSE LET result == VerifyRequest(secret, h.method, h.url, BodyStr(h), h.timestamp,
                                   SignatureHeader(h, t), t)
       IN IF ~result.valid
          THEN [pass |-> FALSE, reply |-> UnauthorizedReply(result.error)]
          ELSE [pass |-> TRUE]

\* the preHandler hook at time t: the request passes, or is answered 401
PreHandler(h, secret, t) ==
  IF h.url = <<"/health">> \/ h.url = <<"/ready">> THEN [pass |-> TRUE]
  ELSE IF h.timestamp = <<>> \/ SignatureHeader(h, t) = NoHeader
  THEN [pass |-> FALSE,
        reply |-> UnauthorizedReply("Missing required authentication headers")]
  ELSE LET result == VerifyRequest(secret, h.method, h.url, BodyStr(h), h.timestamp,
                                   SignatureHeader(h, t), t)
       IN IF ~result.valid
          THEN [pass |-> FALSE, reply |-> UnauthorizedReply(result.error)]
          ELSE [pass |-> TRUE]

\* (variant: healthy only when every provider has a client)
HealthyAll(cl) == cl = Providers

\* chatService.healthCheck().healthy
Healthy(cl) == cl # {}

\* GET /health
HealthReply(cl) ==
  Reply(IF Healthy(cl) THEN 200 ELSE 503,
        [status |-> IF Healthy(cl) THEN "healthy" ELSE "unhealthy", providers |-> cl])

\* GET /ready
ReadyReply(cl) ==
  IF Healthy(cl) THEN Reply(200, [status |-> "ready"])
  ELSE Reply(503, [status |-> "not ready"])

\* GET /v1/models
ModelsReply == Reply(200, [success |-> TRUE, data |-> Catalog])

\* the request was answered without chatService.chat being called
Answered(r, h, reply) ==
  /\ reqs' = [reqs EXCEPT ![r] = [@ EXCEPT !.pc = "done", !.http = h,
                                           !.reply = reply]]
  /\ UNCHANGED <<now, rlVars, activeRequests, configVars, adapter, validation>>

\* one HTTP request h is taken up: the preHandler hook answers it 401, or
\* returns, and the route handler is called once the hook's promise has
\* resolved
Handle(r, h) ==
  /\ reqs[r].pc = "idle"
  /\ LET pre == PreHandler(h, SharedSecret, now) IN
     IF ~pre.pass THEN Answered(r, h, pre.reply)
     ELSE /\ reqs' = [reqs EXCEPT ![r] = [@ EXCEPT !.pc = "hooked", !.http = h]]
          /\ UNCHANGED <<now, rlVars, activeRequests, configVars, adapter, validation>>

\* the route handler of the request that passed the hook, up to its first
\* suspension
RouteHandler(r) ==
  /\ reqs[r].pc = "hooked"
  /\ LET h == reqs[r].http IN
     IF h.url = <<"/health">> THEN Answered(r, h, HealthReply(clients))
     ELSE IF h.url = <<"/ready">> THEN Answered(r, h, ReadyReply(clients))
     ELSE IF h.url = <<"/v1/models">> THEN Answered(r, h, ModelsReply)
     ELSE IF RequestBody(h) = Undefined
     THEN Answered(r, h, HandlerRejectedReply(
            TypeError("Cannot read properties of undefined (reading 'requestId')")))
     ELSE LET b == BodyFields(RequestBody(h)) IN
          IF b.provider = "" \/ b.model = <<>> \/ b.messages = "absent" \/ b.userId = ""
          THEN Answered(r, h, InvalidRequestReply(
                 "Missing required fields: provider, model, messages, userId"))
          ELSE IF b.messages = "empty"
          THEN Answered(r, h, InvalidRequestReply("messages must be a non-empty array"))
          ELSE ChatFrom(r, ChatInput(b), h)

\* ------------------------------------------------------------------------
\* Specification of the HTTP server: requests with every kind of
\* authentication material, one of them while another chat call is running
\* ------------------------------------------------------------------------
HttpRequest(method, url, rawBody, timestamp, signer, sigTail) ==
  [method |-> method, url |-> url, rawBody |-> rawBody, timestamp |-> timestamp,
   signer |-> signer, sigTail |-> sigTail]

\* what the caller passed to signRequest
Signer(secret, method, path, body, timestamp) ==
  [secret |-> secret, method |-> method, path |-> path, body |-> body,
   timestamp |-> timestamp]

ChatUrl == <<"/v1/chat">>

Routes ==
  { [method |-> "GET", url |-> <<"/health">>], [method |-> "GET", url |-> <<"/ready">>],
    [method |-> "GET", url |-> <<"/v1/models">>], [method |-> "POST", url |-> ChatUrl] }

\* the bodies sent to a route
BodiesOf(rt) ==
  IF rt.url = ChatUrl
  THEN {JsonText(n) : n \in DOMAIN ChatBodies} \cup {JsonTextSpaced("b1"), <<>>}
  ELSE {<<>>}

RouteBodies == UNION {{<<rt, raw>> : raw \in BodiesOf(rt)} : rt \in Routes}

TimestampChoices ==
  {<<"0">>, <<"300000">>, <<"300001">>, <<"-300000">>, <<"-300001">>, <<"abc">>,
   <<"0", "abc">>}

\* requests signed by a holder of the key named secret, over exactly the
\* method, url, timestamp and body text that are sent
SignedRequests(secret) ==
  { HttpRequest(p[1].method, p[1].url, p[2], ts,
                Signer(secret, p[1].method, p[1].url, p[2], ts), "")
      : p \in RouteBodies, ts \in TimestampChoices }

\* requests in which what was signed and what is sent differ in one respect
AlteredRequests ==
  LET ts == <<"0">>
      b1 == JsonText("b1")
      sent(raw, signer, tail) == HttpRequest("POST", ChatUrl, raw, ts, signer, tail)
  IN { sent(JsonTextSpaced("b1"), Signer(SharedSecret, "POST", ChatUrl, b1, ts), ""),
       sent(JsonText("b3"), Signer(SharedSecret, "POST", ChatUrl, b1, ts), ""),
       sent(b1, Signer(SharedSecret, "POST", <<"/v1/models">>, b1, ts), ""),
       sent(b1, Signer(SharedSecret, "GET", ChatUrl, b1, ts), ""),
       sent(b1, Signer(SharedSecret, "post", ChatUrl, b1, ts), ""),
       sent(b1, Signer(SharedSecret, "POST", ChatUrl, b1, <<"300000">>), ""),
       sent(b1, Signer(SharedSecret, "POST", ChatUrl, b1, ts), "zz"),
       sent(b1, Signer(SharedSecret, "POST", ChatUrl, b1, ts), "ab") }

\* requests that lack one or both authentication headers
UnsignedRequests ==
  { HttpRequest(p[1].method, p[1].url, p[2], hd[1], hd[2], "")
      : p \in {q \in RouteBodies : q[2] \in {<<>>, JsonText("b1")}},
        hd \in { <<<<>>, NoSigner>>, <<<<"0">>, NoSigner>> } }
  \cup { HttpRequest("POST", ChatUrl, JsonText("b1"), <<>>,
                     Signer(SharedSecret, "POST", ChatUrl, JsonText("b1"), <<"0">>), "") }

HttpRequests ==
  SignedRequests(SharedSecret) \cup SignedRequests(OtherSecret)
    \cup AlteredRequests \cup UnsignedRequests

\* the chat requests of the other caller that run meanwhile
BackgroundRequests ==
  {h \in SignedRequests(SharedSecret) :
     h.timestamp = <<"0">> /\ h.rawBody \in {JsonText("b1"), JsonText("b3")}}

ServerOutcomes ==
  {o \in UpstreamOutcomes :
     \/ o \in {Plain("text"), Plain("json_bad")}
     \/ o.kind = "http" /\ o.status \in {429, 500}
     \/ o.kind = "thrown" /\ o.hasCode /\ o.msgTimeout}

InitServer ==
  /\ now = 0
  /\ limits = EmptyMap
  /\ maxRequestsPerMinute \in {n \in 1..MaxRateLimit : ValidRateLimit(n)}
  /\ rlLog = <<>>
  /\ cleanupInterval = "set"
  /\ activeRequests = 0
  /\ maxConcurrency \in {n \in 0..MaxConcurrency : ValidConcurrency(n)}
  /\ maxRetries \in {n \in {0, MaxGateRetries} : ValidMaxRetries(n)}
  /\ retryBackoffMs = 1000
  /\ clients \in {{}, {"openrouter"}, Providers}
  /\ reqs = [r \in Requests |-> IdleRequest]
  /\ adapter = IdleAdapter
  /\ validation = NotValidated

NextServer ==
  \/ \E h \in BackgroundRequests : Handle("r2", h)
  \/ \E h \in HttpRequests : Handle("r1", h)
  \/ \E r \in {"r1", "r2"} : RouteHandler(r)
  \/ \E r \in {"r1", "r2"} : \E o \in ServerOutcomes : ProviderReturns(r, o)
  \/ \E r \in {"r1", "r2"} : BackoffElapsed(r)
  \/ \E r \in {"r1", "r2"} : ExecuteReturns(r)
  \/ Tick(Steps, MaxGateNow)

SpecServer == InitServer /\ [][NextServer]_vars

\* ------------------------------------------------------------------------
\* Specification of the provider clients: chat(model, ...) of one client
\* called on its own, with every upstream outcome
\* ------------------------------------------------------------------------
AdapterModels ==
  { GptNano, <<"z", "-", "ai/glm", ":", "free">>, <<"openai", ":", "gpt">>,
    <<"openrouter", ":", "glm">>, <<"eigencloud", ":", "gpt", "-", "oss">> }

AdapterOutcomes ==
  OkOutcomes
  \cup [kind : {"http"}, status : {400, 401, 403, 404, 408, 429, 500, 502, 503, 504},
        msgTimeout : BOOLEAN]
  \cup [kind : {"thrown"}, hasCode : BOOLEAN, msgTimeout : BOOLEAN]

InitAdapter ==
  /\ now = 0
  /\ limits = EmptyMap
  /\ maxRequestsPerMinute = 1
  /\ rlLog = <<>>
  /\ cleanupInterval = "set"
  /\ activeRequests = 0
  /\ maxConcurrency = 1
  /\ maxRetries = 0
  /\ retryBackoffMs = 0
  /\ clients = Providers
  /\ reqs = [r \in Requests |-> IdleRequest]
  /\ adapter = IdleAdapter
  /\ validation = NotValidated

\* client.chat(model, ..., responseSchema) up to its first suspension: the
\* OpenRouter client throws for a placeholder, otherwise the upstream call
\* is issued
AdapterCall(provider, model, hasSchema) ==
  /\ adapter.pc = "idle"
  /\ adapter' =
       IF IsPlaceholder(provider, model)
       THEN [pc |-> "done", provider |-> provider, model |-> model,
             hasSchema |-> hasSchema, network |-> 0,
             result |-> Fail(CreateError("LLM_MODEL_NOT_CONFIGURED",
                                         "model placeholder must be replaced", FALSE,
                                         [kind |-> "model", model |-> model]))]
       ELSE [pc |-> "inflight", provider |-> provider, model |-> model,
             hasSchema |-> hasSchema, network |-> 1]
  /\ UNCHANGED <<now, rlVars, activeRequests, configVars, reqs, validation>>

\* the upstream call settles with outcome o and chat returns or throws
AdapterReturns(o) ==
  /\ adapter.pc = "inflight"
  /\ adapter' = [pc |-> "done", provider |-> adapter.provider, model |-> adapter.model,
                 hasSchema |-> adapter.hasSchema, network |-> adapter.network,
                 upstream |-> o,
                 result |-> ClientChat(adapter.provider, adapter.model,
                                       adapter.hasSchema, o)]
  /\ UNCHANGED <<now, rlVars, activeRequests, configVars, reqs, validation>>

NextAdapter ==
  \/ \E p \in Providers : \E m \in AdapterModels : \E s \in BOOLEAN :
       AdapterCall(p, m, s)
  \/ \E o \in AdapterOutcomes : AdapterReturns(o)

SpecAdapter == InitAdapter /\ [][NextAdapter]_vars

\* ------------------------------------------------------------------------
\* Specification of the JsonValidator on its own: validateResponse is
\* called with every kind of truthy payload under each schema
\* ------------------------------------------------------------------------
PropertyValues ==
  { Num("1"), Num("0"), Str("abc"), Str("5"), Str(""), Bool("true"), Null, Arr,
    Obj(NoFields) }

ValidatorPayloads ==
  { Obj(f) : f \in UNION {[names -> PropertyValues] : names \in SUBSET {"x", "y"}} }
    \cup {Arr, Num("1"), Str("abc")}

ValidatorSchemas == {ResponseSchema, TwoNumbersSchema}

InitValidator ==
  /\ now = 0
  /\ limits = EmptyMap
  /\ maxRequestsPerMinute = 1
  /\ rlLog = <<>>
  /\ cleanupInterval = "set"
  /\ activeRequests = 0
  /\ maxConcurrency = 1
  /\ maxRetries = 0
  /\ retryBackoffMs = 0
  /\ clients = Providers
  /\ reqs = [r \in Requests |-> IdleRequest]
  /\ adapter = IdleAdapter
  /\ validation = NotValidated

\* jsonValidator.validateResponse(json, schema), the library reporting the
\* errors errs
ValidateCall(json, schema, errs) ==
  /\ validation' = [pc |-> "done", json |-> json, schema |-> schema,
                    result |-> ValidateResponseWith(json, schema, errs)]
  /\ UNCHANGED <<now, rlVars, activeRequests, configVars, reqs, adapter>>

NextValidator ==
  \E json \in ValidatorPayloads : \E schema \in ValidatorSchemas :
    \E errs \in ViolationOrders(json, schema) : ValidateCall(json, schema, errs)

SpecValidator == InitValidator /\ [][NextValidator]_vars

\* ------------------------------------------------------------------------
\* Properties of the ConcurrencyLimiter
\* ------------------------------------------------------------------------
Outstanding == {r \in Requests : reqs[r].pc \in {"inflight", "backoff", "settled"}}

Holders == {r \in Requests : reqs[r].acquired = 1 /\ reqs[r].released = 0}

\* C3: activeRequests is always within [0, maxConcurrency], and it is 0
\* whenever no operation is outstanding.
C3_CounterWithinBounds ==
  /\ activeRequests >= 0
  /\ activeRequests <= maxConcurrency
  /\ Outstanding = {} => activeRequests = 0

\* every call is over, one was admitted while another held a slot, one
\* admitted operation failed, and the counter is back at 0
C3_Witness ==
  /\ \A r \in Requests : reqs[r].pc = "done"
  /\ \E r \in Requests : reqs[r].gateAt = 1 /\ reqs[r].acquired = 1
  /\ \E r \in Requests : reqs[r].acquired = 1 /\ ~reqs[r].outcome.ok
  /\ activeRequests = 0

\* C4: execute called while activeRequests is at maxConcurrency fails in that
\* same step with CONCURRENCY_LIMIT_EXCEEDED, retryable, without invoking the
\* operation or waiting, and leaves activeRequests unchanged.
C4_RejectAtLimit ==
  [][\A r \in Requests :
       (reqs[r].pc = "idle" /\ reqs'[r].gateAt >= maxConcurrency)
       => /\ reqs'[r].pc = "done"
          /\ ~reqs'[r].outcome.ok
          /\ reqs'[r].outcome.error.code = "CONCURRENCY_LIMIT_EXCEEDED"
          /\ reqs'[r].outcome.error.retryable = TRUE
          /\ reqs'[r].calls = 0 /\ reqs'[r].upstream = 0
          /\ reqs'[r].acquired = 0 /\ reqs'[r].delays = <<>>
          /\ activeRequests' = activeRequests]_vars

\* a call met the gate with both slots taken and was turned away
C4_Witness ==
  \E r \in Requests :
    /\ maxConcurrency = 2 /\ reqs[r].gateAt = 2
    /\ reqs[r].pc = "done"
    /\ reqs[r].outcome.error.code = "CONCURRENCY_LIMIT_EXCEEDED"

\* C5: an admitted execute increments the counter once and decrements it
\* once, whether its operation returned or threw, so the counter is the
\* number of admitted calls not yet settled; the caller gets exactly what the
\* operation settled with.
C5_AcquireReleasePaired ==
  /\ activeRequests = Cardinality(Holders)
  /\ \A r \in Requests :
       LET q == reqs[r] IN
       /\ q.acquired \in {0, 1} /\ q.released \in {0, 1}
       /\ q.released <= q.acquired
       /\ q.pc \in {"inflight", "backoff"} => q.acquired = 1 /\ q.released = 0
       /\ q.pc = "done" => q.released = q.acquired
       /\ (q.pc = "done" /\ q.acquired = 1) => q.outcome = q.opOutcome

\* an admitted call failed after a retry and gave its slot back while
\* another call is still in flight
C5_Witness ==
  /\ \E r \in Requests :
       /\ reqs[r].pc = "done" /\ reqs[r].acquired = 1 /\ reqs[r].released = 1
       /\ ~reqs[r].outcome.ok /\ reqs[r].calls = 2
  /\ \E r \in Requests : reqs[r].pc = "inflight"
  /\ activeRequests = 1

\* ------------------------------------------------------------------------
\* Properties of executeWithRetry
\* ------------------------------------------------------------------------
\* C6 as stated: the adapter invocations of one request never exceed
\* maxRetries.
C6_CallsWithinMaxRetries ==
  \A r \in Requests : reqs[r].calls <= maxRetries

\* C6 (amended): the adapter invocations of one request never exceed
\* max(1, maxRetries): the first attempt does not look at maxRetries, and the
\* re-attempts number at most maxRetries - 1. No more invocations are made
\* than attempts were started.
C6_CallsWithinAttempts ==
  \A r \in Requests :
    /\ reqs[r].calls <= (IF maxRetries < 1 THEN 1 ELSE maxRetries)
    /\ reqs[r].calls <= reqs[r].attempt
    /\ Len(reqs[r].delays) <= (IF maxRetries < 1 THEN 0 ELSE maxRetries - 1)

\* a request used all four attempts that maxRetries = 4 allows
C6_Witness ==
  \E r \in Requests :
    maxRetries = 4 /\ reqs[r].calls = 4 /\ retryBackoffMs = 1000

\* C7 as stated: the delay waited after the k-th failed attempt is
\* retryBackoffMs * 2^(k-1): that is the delay asked for, the timer is set to
\* fire no sooner, and every attempt after the first starts only after the
\* delay asked for at the preceding failure has elapsed, on the clock the
\* timers run on.
C7_DelayElapsedFirst ==
  \A r \in Requests :
    LET q == reqs[r] IN
    /\ \A k \in 1..Len(q.delays) :
         IF retryBackoffMs > TIMEOUT_MAX \div (2 ^ (k - 1))
         THEN q.delays[k] = AboveTimeoutMax
         ELSE q.delays[k] = retryBackoffMs * 2 ^ (k - 1)
    /\ q.pc = "backoff" =>
         /\ Len(q.delays) = q.attempt
         /\ AtLeast(q.wakeAt - q.failedAt, q.delays[q.attempt])
    /\ q.pc = "inflight" => Len(q.delays) = q.attempt - 1
    /\ ~q.early

\* with retryBackoffMs = 1073741824 the second failure asks for a delay of
\* 2147483648 ms, and the third attempt is in flight when Date.now() reads
\* one millisecond more than at that failure
C7_Witness ==
  \E r \in Requests :
    /\ retryBackoffMs = LongBackoffMs
    /\ reqs[r].pc = "inflight" /\ reqs[r].attempt = 3 /\ reqs[r].calls = 3
    /\ reqs[r].delays = <<LongBackoffMs, AboveTimeoutMax>>
    /\ reqs[r].early
    /\ now = LongBackoffMs + 1

\* C8: a failed attempt is followed by another one exactly when its error is
\* retryable and its number is below maxRetries; otherwise that error is what
\* the request fails with, unchanged.
C8_RetryIffRetryable ==
  \A r \in Requests :
    LET q == reqs[r] IN
    /\ q.pc = "backoff" => Retryable(q.lastError) /\ q.attempt < maxRetries
    /\ (q.pc = "inflight" /\ q.attempt > 1) =>
         Retryable(q.lastError) /\ q.attempt - 1 < maxRetries
    /\ (q.pc = "done" /\ q.acquired = 1 /\ ~q.opOutcome.ok) =>
         /\ ~(Retryable(q.lastError) /\ q.attempt < maxRetries)
         /\ q.opOutcome.error = q.lastError
         /\ q.outcome = Fail(q.lastError)

\* a request gave up on a retryable error at its third and last attempt
C8_Witness ==
  \E r \in Requests :
    /\ reqs[r].pc = "done" /\ ~reqs[r].outcome.ok
    /\ maxRetries = 3 /\ reqs[r].attempt = 3 /\ reqs[r].calls = 3
    /\ Retryable(reqs[r].outcome.error)

\* the latest upstream outcome of request q was JSON that violates the schema
SchemaViolation(q) ==
  /\ q.input.hasSchema
  /\ Len(q.seen) > 0
  /\ q.seen[Len(q.seen)].kind = "ok"
  /\ q.seen[Len(q.seen)].content = "json_bad"

\* C9: when a schema was supplied and the adapter returned parsed JSON that
\* the validator rejects, the request is over with SCHEMA_VALIDATION_FAILED,
\* not retryable: no backoff is pending and no further call was made. (The
\* error is executeWithRetry's at once, and chat's outcome when the gate has
\* given the slot back.)
C9_SchemaFailureFinal ==
  \A r \in Requests :
    LET q == reqs[r] IN
    SchemaViolation(q) =>
      /\ q.pc \in {"settled", "done"}
      /\ ~q.opOutcome.ok
      /\ q.opOutcome.error.code = "SCHEMA_VALIDATION_FAILED"
      /\ q.opOutcome.error.retryable = FALSE
      /\ q.pc = "done" => q.outcome = q.opOutcome
      /\ q.calls = q.attempt
      /\ Len(q.delays) = q.attempt - 1
      /\ q.wakeAt = 0

\* with maxRetries = 4, a first attempt returned non-conforming JSON and the
\* request ended there
C9_Witness ==
  \E r \in Requests :
    /\ SchemaViolation(reqs[r])
    /\ maxRetries = 4 /\ reqs[r].calls = 1 /\ reqs[r].pc = "done"

\* request q: provider openai, no schema, first upstream answer HTTP 500
OpenAI500First(q) ==
  /\ q.input.provider = "openai" /\ ~q.input.hasSchema
  /\ q.calls <= 2 /\ Len(q.seen) >= 1
  /\ q.seen[1].kind = "http" /\ q.seen[1].status = 500

\* C10: provider openai, no schema, maxRetries >= 2: after a first answer of
\* HTTP 500 the request is retried after one delay of retryBackoffMs, and when
\* the second call succeeds chat returns that response after exactly two
\* adapter calls and that one delay, with the counter back at its prior value
\* (once the gate has given the slot back, which is when chat returns).
C10_RetryAfter500 ==
  \A r \in Requests :
    LET q == reqs[r] IN
    (OpenAI500First(q) /\ maxRetries >= 2) =>
      /\ Len(q.seen) = 1 =>
           /\ q.pc \in {"backoff", "inflight"}
           /\ q.delays = <<retryBackoffMs>>
      /\ (Len(q.seen) = 2 /\ q.seen[2].kind = "ok") =>
           /\ q.pc \in {"settled", "done"}
           /\ q.delays = <<retryBackoffMs>>
           /\ q.opOutcome = Ok(Response(q.seen[2].content, "undefined", q.seen[2].model))
           /\ q.calls = 2 /\ q.upstream = 2
           /\ q.pc = "done" =>
                /\ q.outcome = q.opOutcome
                /\ q.released = 1
                /\ activeRequests = 0

\* the scenario ran to its end: 500, one second of backoff, then success
C10_Witness ==
  \E r \in Requests :
    /\ OpenAI500First(reqs[r]) /\ maxRetries >= 2 /\ retryBackoffMs = 1000
    /\ Len(reqs[r].seen) = 2 /\ reqs[r].seen[2].kind = "ok"
    /\ reqs[r].pc = "done" /\ reqs[r].outcome.ok

\* ------------------------------------------------------------------------
\* Properties of the RateLimiter
\* ------------------------------------------------------------------------
LogIdx == 1..Len(rlLog)

\* the limiter is in service: destroy() has not been called
InService == cleanupInterval = "set"

\* the allowed calls of caller u made in the interval [lo, hi)
AllowedIn(u, lo, hi) ==
  {i \in LogIdx : rlLog[i].userId = u /\ rlLog[i].result.allowed
                   /\ rlLog[i].at >= lo /\ rlLog[i].at < hi}

\* the allowed calls of caller u counted in the window that ends at resetAt
AllowedInWindow(u, resetAt) ==
  {i \in LogIdx : rlLog[i].userId = u /\ rlLog[i].result.allowed
                   /\ rlLog[i].resetAt = resetAt}

\* C1 as stated: at most N allowed calls of a caller fall in any rolling
\* 60-second interval (it is enough to look at the intervals that begin at a
\* call), and every rejection reports retryAfter <= 60. (Stated of a limiter
\* in service: destroy() forgets every window.)
C1_RollingWindow ==
  InService => \A i \in LogIdx :
    /\ Cardinality(AllowedIn(rlLog[i].userId, rlLog[i].at, rlLog[i].at + WindowMs))
         <= maxRequestsPerMinute
    /\ ~rlLog[i].result.allowed => rlLog[i].result.retryAfter <= 60

\* C1 (amended): at most N calls of a caller are allowed within one fixed
\* window of that caller (the 60 seconds that begin at the call which opened
\* the window); a rejected call is one made inside a window that already
\* holds N allowed calls, and it reports retryAfter <= 60. A rolling
\* 60-second interval holds at most 2N - 1 allowed calls of a caller. (Stated
\* of a limiter in service: destroy() forgets every window.)
C1_FixedWindow ==
  InService => \A i \in LogIdx :
    LET e == rlLog[i] IN
    /\ Cardinality(AllowedInWindow(e.userId, e.resetAt)) <= maxRequestsPerMinute
    /\ e.at < e.resetAt /\ e.resetAt <= e.at + WindowMs
    /\ Cardinality(AllowedIn(e.userId, e.at, e.at + WindowMs))
         <= 2 * maxRequestsPerMinute - 1
    /\ ~e.result.allowed =>
         /\ e.result.retryAfter <= 60
         /\ Cardinality({j \in AllowedInWindow(e.userId, e.resetAt) : j < i})
              = maxRequestsPerMinute

\* a caller was rejected as the third call of its window, later than the
\* instant the window opened
C1_Witness ==
  \E i \in LogIdx :
    /\ ~rlLog[i].result.allowed
    /\ maxRequestsPerMinute = 2
    /\ rlLog[i].at > rlLog[i].resetAt - WindowMs
    /\ Cardinality({j \in AllowedInWindow(rlLog[i].userId, rlLog[i].resetAt) : j < i}) = 2

\* C2: the stored count of every caller's window is between 1 and the
\* configured maximum, and a call rejected for a caller leaves that caller's
\* count at the maximum (it is not counted) for as long as the limiter is in
\* service and the window is the caller's current one.
C2_CountBounded ==
  /\ \A u \in DOMAIN limits :
        limits[u].count >= 1 /\ limits[u].count <= maxRequestsPerMinute
  /\ \A i \in LogIdx :
        (InService /\ ~rlLog[i].result.allowed /\ rlLog[i].userId \in DOMAIN limits
           /\ limits[rlLog[i].userId].resetAt = rlLog[i].resetAt)
        => limits[rlLog[i].userId].count = maxRequestsPerMinute

\* a caller sits at the maximum after a rejected call, in a second window,
\* while a sweep has removed another caller's expired entry
C2_Witness ==
  /\ maxRequestsPerMinute = 2
  /\ \E i \in LogIdx :
        /\ ~rlLog[i].result.allowed
        /\ rlLog[i].userId \in DOMAIN limits
        /\ limits[rlLog[i].userId].count = 2
        /\ limits[rlLog[i].userId].resetAt = rlLog[i].resetAt
  /\ \E j \in LogIdx : rlLog[j].userId \notin DOMAIN limits

\* ------------------------------------------------------------------------
\* Properties of the authentication check
\* ------------------------------------------------------------------------
\* request r is taken up by the server in this step
Handled(r) ==
  reqs[r].pc = "idle" /\ reqs'[r].pc # "idle" /\ reqs'[r].http # NoHttp

Exempt(h) == h.url \in {<<"/health">>, <<"/ready">>}

Answered401(q) == "status" \in DOMAIN q.reply /\ q.reply.status = 401

\* the signer signed, with the shared secret, exactly what was sent
Untampered(h) ==
  /\ h.signer # NoSigner /\ h.sigTail = "" /\ h.timestamp # <<>>
  /\ h.signer.secret = SharedSecret
  /\ ToUpperCase(h.signer.method) = h.method /\ h.signer.path = h.url
  /\ h.signer.timestamp = h.timestamp /\ h.signer.body = h.rawBody

BodyAltered(h) == h.signer # NoSigner /\ h.signer.body # h.rawBody

OtherPathOrMethod(h) ==
  /\ h.signer # NoSigner
  /\ h.signer.path # h.url \/ ToUpperCase(h.signer.method) # h.method

\* the claimed time lies t - 5 minutes or later, and not after t
SignedInLastFiveMinutes(h, t) ==
  /\ ~IsNaN(ParseInt(h.timestamp))
  /\ t - ParseInt(h.timestamp).value >= 0
  /\ t - ParseInt(h.timestamp).value <= TIMESTAMP_TOLERANCE_MS

OlderThanFiveMinutes(h, t) ==
  /\ ~IsNaN(ParseInt(h.timestamp))
  /\ t - ParseInt(h.timestamp).value > TIMESTAMP_TOLERANCE_MS

\* C11 as stated: a request whose body differs from the body that was
\* signed, whose signature was computed for another path or method, or whose
\* timestamp is more than 5 minutes old is rejected, and a request signed
\* with the shared secret over the raw body it carries within the last 5
\* minutes is accepted.
C11_AuthOverRawBody ==
  [][\A r \in Requests :
       (Handled(r) /\ ~Exempt(reqs'[r].http)) =>
         LET h == reqs'[r].http IN
         /\ (BodyAltered(h) \/ OtherPathOrMethod(h) \/ OlderThanFiveMinutes(h, now))
              => Answered401(reqs'[r])
         /\ (Untampered(h) /\ SignedInLastFiveMinutes(h, now))
              => ~Answered401(reqs'[r])]_vars

\* a request signed over its raw body, which holds whitespace, with the
\* shared secret and the current time was answered 401
C11_Witness ==
  /\ now = 0
  /\ LET q == reqs["r1"] IN
     /\ q.pc = "done" /\ q.http # NoHttp
     /\ Untampered(q.http) /\ q.http.rawBody = JsonTextSpaced("b1")
     /\ q.http.timestamp = <<"0">>
     /\ q.reply = UnauthorizedReply("Invalid signature")

\* both authentication headers are present
HasAuthHeaders(h) == h.timestamp # <<>> /\ h.signer # NoSigner

\* the signature sent is the one verifyRequest computes
SignatureMatches(h, t) ==
  /\ h.signer # NoSigner
  /\ FromHex(SignatureHeader(h, t))
       = FromHex(SignRequest(SharedSecret, h.method, h.url, BodyStr(h), h.timestamp,
                             t).signature)

\* C12: a request whose timestamp does not parse as an integer is rejected,
\* and so is one whose timestamp lies more than 5 minutes before or after the
\* current time, whether or not its signature matches; with a timestamp
\* exactly 5 minutes away a matching signature is accepted.
C12_TimestampFreshness ==
  [][\A r \in Requests :
       (Handled(r) /\ ~Exempt(reqs'[r].http) /\ HasAuthHeaders(reqs'[r].http)) =>
         LET h == reqs'[r].http
             requestTime == ParseInt(h.timestamp)
         IN /\ IsNaN(requestTime)
                 => reqs'[r].reply = UnauthorizedReply("Invalid timestamp format")
            /\ (~IsNaN(requestTime)
                  /\ Abs(now - requestTime.value) > TIMESTAMP_TOLERANCE_MS)
                 => reqs'[r].reply
                      = UnauthorizedReply("Request expired or timestamp too far in future")
            /\ (~IsNaN(requestTime)
                  /\ Abs(now - requestTime.value) <= TIMESTAMP_TOLERANCE_MS
                  /\ SignatureMatches(h, now))
                 => ~Answered401(reqs'[r])]_vars

\* a request stamped exactly 5 minutes before the current time was accepted
\* and served
C12_Witness ==
  /\ now = 0
  /\ LET q == reqs["r1"] IN
     /\ q.pc = "done" /\ q.http # NoHttp
     /\ q.http.url = <<"/v1/models">> /\ q.http.timestamp = <<"-300000">>
     /\ q.reply = ModelsReply

\* the request lacks a header or fails verifyRequest
FailsAuthentication(h, t) ==
  \/ ~HasAuthHeaders(h)
  \/ ~VerifyRequest(SharedSecret, h.method, h.url, BodyStr(h), h.timestamp,
                    SignatureHeader(h, t), t).valid

\* C13: a request to an endpoint other than /health and /ready that lacks a
\* header or fails verifyRequest is answered 401 in the step that takes it
\* up, and nothing of the pipeline changes: no rate window, no slot, no
\* provider call; /health and /ready pass the hook whatever the headers and
\* are served by their handlers, which change nothing of the pipeline either.
C13_UnauthenticatedNoEffect ==
  [][\A r \in Requests :
       /\ Handled(r) =>
            LET h == reqs'[r].http
                q == reqs'[r]
            IN /\ (~Exempt(h) /\ FailsAuthentication(h, now)) =>
                    /\ q.pc = "done" /\ Answered401(q)
                    /\ limits' = limits /\ activeRequests' = activeRequests
                    /\ q.calls = 0 /\ q.upstream = 0 /\ q.acquired = 0
                    /\ q.outcome = IdleRequest.outcome
               /\ Exempt(h) =>
                    /\ q.pc = "hooked"
                    /\ limits' = limits /\ activeRequests' = activeRequests
       /\ (reqs[r].pc = "hooked" /\ reqs'[r] # reqs[r] /\ Exempt(reqs[r].http)) =>
            /\ reqs'[r].pc = "done" /\ reqs'[r].reply.status \in {200, 503}
            /\ reqs'[r].http = reqs[r].http
            /\ limits' = limits /\ activeRequests' = activeRequests]_vars

\* while another caller's chat call holds a slot and a rate window, a chat
\* request without a signature was answered 401
C13_Witness ==
  /\ reqs["r2"].pc = "inflight" /\ activeRequests = 1 /\ DOMAIN limits = {"u1"}
  /\ LET q == reqs["r1"] IN
     /\ q.pc = "done" /\ q.http # NoHttp
     /\ q.http.url = ChatUrl /\ q.http.signer = NoSigner
     /\ q.http.rawBody = JsonText("b1")
     /\ Answered401(q) /\ q.calls = 0

\* ------------------------------------------------------------------------
\* Properties of the pipeline order and of model resolution
\* ------------------------------------------------------------------------
\* chat is called for request r in this step
Called(r) == reqs[r].pc = "idle" /\ reqs'[r].pc # "idle"

\* the window of caller u holds its maximum and has not expired
Exhausted(u) ==
  /\ u \in DOMAIN limits /\ now < limits[u].resetAt
  /\ limits[u].count >= maxRequestsPerMinute

\* some catalog entry has the id the alias maps to, or the provider and
\* upstream model given
Resolvable(in) ==
  \E i \in 1..Len(Catalog) :
    \/ Catalog[i].id = MapModelIdToCatalogId(in.model, in.provider)
    \/ Catalog[i].provider = in.provider /\ Catalog[i].model = in.model

FailedWith(q, code) ==
  /\ q.pc = "done" /\ ~q.outcome.ok
  /\ "code" \in DOMAIN q.outcome.error /\ q.outcome.error.code = code

\* the rate window of caller u after one more counted call
Counted(u) ==
  IF u \in DOMAIN limits /\ now < limits[u].resetAt
  THEN limits[u].count + 1 ELSE 1

\* C14 as stated: the rate limit comes before model resolution: a caller
\* whose window is exhausted gets RATE_LIMIT_EXCEEDED even for an
\* unresolvable alias, and a request with an unresolvable alias consumes one
\* unit of its caller's window.
C14_RateLimitBeforeResolution ==
  [][\A r \in Requests :
       Called(r) =>
         LET in == reqs'[r].input IN
         /\ Exhausted(in.userId) => FailedWith(reqs'[r], "RATE_LIMIT_EXCEEDED")
         /\ (~Resolvable(in) /\ ~Exhausted(in.userId))
              => /\ in.userId \in DOMAIN limits'
                 /\ limits'[in.userId].count = Counted(in.userId)]_vars

\* C14 (amended): model resolution comes first, then the rate limit, then
\* the gate, then the dispatch: an unresolvable alias fails with
\* MODEL_NOT_FOUND and leaves the caller's window as it was, exhausted or
\* not; a resolvable request of a caller whose window is exhausted fails with
\* RATE_LIMIT_EXCEEDED before the gate; every other request is counted in
\* the window and then either turned away by the gate or dispatched.
C14_ResolutionBeforeRateLimit ==
  [][\A r \in Requests :
       Called(r) =>
         LET in == reqs'[r].input
             q == reqs'[r]
         IN /\ ~Resolvable(in)
                 => /\ FailedWith(q, "MODEL_NOT_FOUND")
                    /\ limits' = limits /\ activeRequests' = activeRequests
                    /\ q.gateAt = -1 /\ q.calls = 0
            /\ (Resolvable(in) /\ Exhausted(in.userId))
                 => /\ FailedWith(q, "RATE_LIMIT_EXCEEDED")
                    /\ limits' = limits /\ activeRequests' = activeRequests
                    /\ q.gateAt = -1 /\ q.calls = 0
            /\ (Resolvable(in) /\ ~Exhausted(in.userId))
                 => /\ limits'[in.userId].count = Counted(in.userId)
                    /\ q.gateAt = activeRequests
                    /\ IF activeRequests >= maxConcurrency
                       THEN FailedWith(q, "CONCURRENCY_LIMIT_EXCEEDED") /\ q.calls = 0
                       ELSE q.acquired = 1 /\ q.calls = 1]_vars

\* two calls of one caller filled its window, and a third call of that
\* caller, with an unresolvable alias, failed with MODEL_NOT_FOUND
C14_Witness ==
  /\ maxRequestsPerMinute = 2
  /\ \A r \in {"r1", "r2"} : reqs[r].input.userId = "u1" /\ reqs[r].acquired = 1
  /\ reqs["r3"].input.userId = "u1" /\ ~Resolvable(reqs["r3"].input)
  /\ FailedWith(reqs["r3"], "MODEL_NOT_FOUND")
  /\ limits["u1"].count = 2

\* the catalog entry with this id
EntryWithId(id) == Catalog[CHOOSE i \in 1..Len(Catalog) : Catalog[i].id = id]

HasEntryWithId(id) == \E i \in 1..Len(Catalog) : Catalog[i].id = id

\* the catalog id "openrouter-<name>-free" of the alias "openrouter:<name>"
OpenRouterFreeId(alias) ==
  <<"openrouter", "-">> \o SubSeq(alias, 3, Len(alias)) \o <<"-", "free">>

IsOpenRouterAlias(in) ==
  /\ in.provider = "openrouter" /\ Len(in.model) >= 2
  /\ in.model[1] = "openrouter" /\ in.model[2] = ":"

\* C15: for provider openrouter the alias "openrouter:<name>" resolves to
\* the catalog entry with id "openrouter-<name>-free" when there is one; an
\* alias that no catalog entry matches, by id or by provider and upstream
\* model, fails with MODEL_NOT_FOUND, not retryable, before the gate is
\* entered and before any provider call.
C15_AliasResolution ==
  \A r \in Requests :
    LET q == reqs[r] IN
    q.pc # "idle" =>
      /\ (IsOpenRouterAlias(q.input) /\ HasEntryWithId(OpenRouterFreeId(q.input.model)))
           => q.actualModel = EntryWithId(OpenRouterFreeId(q.input.model)).model
      /\ ~Resolvable(q.input)
           => /\ FailedWith(q, "MODEL_NOT_FOUND")
              /\ q.outcome.error.retryable = FALSE
              /\ q.gateAt = -1 /\ q.acquired = 0
              /\ q.calls = 0 /\ q.upstream = 0 /\ q.delays = <<>>

\* the alias "openrouter:glm" went upstream as the model of the entry
\* "openrouter-glm-free"
C15_Witness ==
  LET q == reqs["r1"] IN
  /\ q.input.provider = "openrouter" /\ q.input.model = <<"openrouter", ":", "glm">>
  /\ q.pc = "inflight"
  /\ q.actualModel = EntryWithId(<<"openrouter", "-", "glm", "-", "free">>).model

\* C16: whenever the adapter has been called for a request, on the first
\* attempt or on a retry, the model string it was given is the upstream
\* model of the catalog entry the request resolved to; it is the caller's
\* alias only when the two are the same string.
C16_DispatchUsesCatalogModel ==
  \A r \in Requests :
    LET q == reqs[r] IN
    q.calls >= 1 =>
      /\ ResolveModel(q.input.model, q.input.provider).found
      /\ q.dispatched = ResolveModel(q.input.model, q.input.provider).def.model
      /\ q.dispatched = q.actualModel

\* a retry was dispatched with the catalog's model string, which is not the
\* alias the caller sent
C16_Witness ==
  LET q == reqs["r1"] IN
  /\ q.pc = "inflight" /\ q.calls = 2
  /\ q.dispatched # q.input.model
  /\ q.dispatched = <<"z", "-", "ai/glm", ":", "free">>

\* ------------------------------------------------------------------------
\* Properties of the provider clients
\* ------------------------------------------------------------------------
\* the client's chat threw an error with this code and retryable flag
Threw(a, code, retryable) ==
  /\ ~a.result.ok /\ a.result.error.code = code
  /\ "retryable" \in DOMAIN a.result.error /\ a.result.error.retryable = retryable

\* C17 as stated: in each of the three clients an upstream status 429
\* becomes PROVIDER_RATE_LIMITED (retryable), 401 or 403 PROVIDER_AUTH_FAILED
\* (not retryable), a status of 500 or more PROVIDER_ERROR (retryable), any
\* other 4xx PROVIDER_ERROR (not retryable), and a transport timeout
\* PROVIDER_TIMEOUT (retryable).
C17_StatusClassification ==
  (adapter.pc = "done" /\ adapter.network = 1) =>
    LET o == adapter.upstream IN
    /\ (o.kind = "http" /\ o.status = 429) => Threw(adapter, "PROVIDER_RATE_LIMITED", TRUE)
    /\ (o.kind = "http" /\ o.status \in {401, 403})
         => Threw(adapter, "PROVIDER_AUTH_FAILED", FALSE)
    /\ (o.kind = "http" /\ o.status >= 500) => Threw(adapter, "PROVIDER_ERROR", TRUE)
    /\ (o.kind = "http" /\ o.status >= 400 /\ o.status < 500
          /\ o.status \notin {401, 403, 429})
         => Threw(adapter, "PROVIDER_ERROR", FALSE)
    /\ (o.kind = "thrown" /\ o.msgTimeout) => Threw(adapter, "PROVIDER_TIMEOUT", TRUE)

\* the OpenRouter client threw the transport's own timeout error, which has
\* a code and a message, instead of a PROVIDER_TIMEOUT error
C17_Witness ==
  /\ adapter.pc = "done" /\ adapter.provider = "openrouter" /\ adapter.network = 1
  /\ adapter.upstream = [kind |-> "thrown", hasCode |-> TRUE, msgTimeout |-> TRUE]
  /\ adapter.result = Fail(RawError)

\* the last upstream outcome of request q was text that is not JSON
LastWasText(q) ==
  /\ q.seen # <<>> /\ q.seen[Len(q.seen)].kind = "ok"
  /\ q.seen[Len(q.seen)].content = "text"

\* C18 as stated: with a schema requested, when the upstream call succeeds
\* with text that is not valid JSON the request fails at once with
\* JSON_PARSE_FAILED, not retryable, and that code is the one the caller of
\* chat and the HTTP client get.
C18_ParseFailureCode ==
  \A r \in Requests :
    LET q == reqs[r] IN
    (q.input.hasSchema /\ LastWasText(q)) =>
      /\ FailedWith(q, "JSON_PARSE_FAILED")
      /\ q.outcome.error.retryable = FALSE
      /\ q.reply.body.error.code = "JSON_PARSE_FAILED"

\* a request to the OpenAI client with a schema got text back and failed
\* with INTERNAL_ERROR
C18_Witness ==
  LET q == reqs["r1"] IN
  /\ q.input.provider = "openai" /\ q.input.hasSchema /\ LastWasText(q)
  /\ q.calls = 1 /\ FailedWith(q, "INTERNAL_ERROR")

\* the model string has the form "<providerTag>:<name>" for the client's own
\* provider tag
PlaceholderForm(provider, model) ==
  Len(model) >= 3 /\ model[1] = provider /\ model[2] = ":"

\* C19 as stated: each client rejects a placeholder model with
\* LLM_MODEL_NOT_CONFIGURED, not retryable, before it issues any upstream
\* call.
C19_PlaceholderRejected ==
  (adapter.pc # "idle" /\ PlaceholderForm(adapter.provider, adapter.model)) =>
    /\ adapter.pc = "done" /\ adapter.network = 0
    /\ Threw(adapter, "LLM_MODEL_NOT_CONFIGURED", FALSE)

\* the OpenAI client issued an upstream call for the model "openai:gpt"
C19_Witness ==
  /\ adapter.pc = "inflight" /\ adapter.provider = "openai"
  /\ adapter.model = <<"openai", ":", "gpt">> /\ adapter.network = 1

\* ------------------------------------------------------------------------
\* Properties of the POST /v1/chat replies
\* ------------------------------------------------------------------------
\* the values of LLMErrorCode
ServiceErrorCodes ==
  { "INVALID_REQUEST", "MODEL_NOT_FOUND", "LLM_MODEL_NOT_CONFIGURED",
    "PROVIDER_NOT_CONFIGURED", "RATE_LIMIT_EXCEEDED", "CONCURRENCY_LIMIT_EXCEEDED",
    "PROVIDER_ERROR", "PROVIDER_TIMEOUT", "PROVIDER_RATE_LIMITED",
    "PROVIDER_AUTH_FAILED", "JSON_VALIDATION_FAILED", "JSON_PARSE_FAILED",
    "SCHEMA_VALIDATION_FAILED", "INTERNAL_ERROR", "TIMEOUT" }

\* the status the interface table gives for a code
TableStatus(code) ==
  CASE code = "RATE_LIMIT_EXCEEDED" -> 429
    [] code = "INVALID_REQUEST" -> 400
    [] code = "MODEL_NOT_FOUND" -> 404
    [] OTHER -> 500

\* request r was a POST /v1/chat and its reply is a failure with a
\* ServiceError code
ChatFailure(q) ==
  /\ q.pc = "done" /\ q.http # NoHttp /\ q.http.url = ChatUrl
  /\ "success" \in DOMAIN q.reply.body /\ "error" \in DOMAIN q.reply.body
  /\ q.reply.body.error.code \in ServiceErrorCodes

\* C20: a POST /v1/chat failure with a ServiceError code is answered 429 for
\* RATE_LIMIT_EXCEEDED, 400 for INVALID_REQUEST, 404 for MODEL_NOT_FOUND and
\* 500 for every other code, and when chat threw the error the body carries
\* its code, message, details and retryable flag as they were.
C20_StatusMapping ==
  \A r \in Requests :
    LET q == reqs[r] IN
    ChatFailure(q) =>
      /\ q.reply.status = TableStatus(q.reply.body.error.code)
      /\ q.reply.body.success = FALSE
      /\ ("ok" \in DOMAIN q.outcome /\ "code" \in DOMAIN q.outcome.error) =>
           LET e == q.outcome.error
               sent == q.reply.body.error
           IN /\ ~q.outcome.ok
              /\ sent.code = e.code /\ sent.message = e.message
              /\ "retryable" \in DOMAIN e
                   => "retryable" \in DOMAIN sent /\ sent.retryable = e.retryable
              /\ IF "details" \in DOMAIN e /\ e.details # NoDetails
                 THEN "details" \in DOMAIN sent /\ sent.details = e.details
                 ELSE "details" \notin DOMAIN sent

\* while another chat call holds the only slot, a chat request was turned
\* away by the gate and answered 500 with the retryable flag set
C20_Witness ==
  /\ reqs["r2"].pc = "inflight" /\ maxConcurrency = 1
  /\ LET q == reqs["r1"] IN
     /\ ChatFailure(q) /\ FailedWith(q, "CONCURRENCY_LIMIT_EXCEEDED")
     /\ q.reply.status = 500 /\ q.reply.body.error.retryable = TRUE

\* request q was answered on one of the two authenticated routes
AnsweredOnApi(q) ==
  q.pc = "done" /\ q.http # NoHttp /\ q.http.url \in {<<"/v1/models">>, ChatUrl}

\* C21 as stated: every reply to GET /v1/models and POST /v1/chat, failures
\* of every kind included, has a success field, and that field is false
\* exactly when the body has an error field.
C21_Envelope ==
  \A r \in Requests :
    LET q == reqs[r] IN
    AnsweredOnApi(q) =>
      /\ "success" \in DOMAIN q.reply.body
      /\ q.reply.body.success = FALSE <=> "error" \in DOMAIN q.reply.body

\* GET /v1/models without the authentication headers was answered 401 with
\* a body that has an error field and no success field
C21_Witness ==
  LET q == reqs["r1"] IN
  /\ AnsweredOnApi(q) /\ q.http.url = <<"/v1/models">> /\ q.http.timestamp = <<>>
  /\ q.reply.status = 401
  /\ "error" \in DOMAIN q.reply.body /\ "success" \notin DOMAIN q.reply.body

\* request q is a POST /v1/chat that passed the preHandler hook and whose
\* handler failed with a value that has no code: chat threw such a value, or
\* there was no body to take the fields from
UnclassifiedFailure(q) ==
  /\ q.pc = "done" /\ q.http # NoHttp /\ q.http.url = ChatUrl
  /\ q.reply.status # 401
  /\ \/ RequestBody(q.http) = Undefined
     \/ /\ "ok" \in DOMAIN q.outcome /\ ~q.outcome.ok
        /\ "code" \notin DOMAIN q.outcome.error

\* C22 as stated: a POST /v1/chat failure that is no ServiceError is answered
\* 500 with code INTERNAL_ERROR and the fixed message "Internal server
\* error", and with nothing of the failure's own message or details.
C22_UnknownErrorWrapped ==
  \A r \in Requests :
    LET q == reqs[r] IN
    UnclassifiedFailure(q) =>
      /\ q.reply.status = 500
      /\ "success" \in DOMAIN q.reply.body /\ q.reply.body.success = FALSE
      /\ q.reply.body.error =
           [code |-> "INTERNAL_ERROR", message |-> "Internal server error"]

\* a signed POST /v1/chat without a body was answered 500 with the message
\* of a TypeError and no INTERNAL_ERROR code
C22_Witness ==
  LET q == reqs["r1"] IN
  /\ UnclassifiedFailure(q) /\ q.http.rawBody = <<>>
  /\ q.reply.status = 500 /\ "success" \notin DOMAIN q.reply.body
  /\ q.reply.body.message = "Cannot read properties of undefined (reading 'requestId')"

\* ------------------------------------------------------------------------
\* Properties of GET /ready
\* ------------------------------------------------------------------------
\* C23: GET /ready is answered 200 exactly when at least one of the three
\* providers has a client (its key was configured) and 503 otherwise,
\* whatever the rate windows and the in-flight counter hold.
C23_ReadyIffProvider ==
  \A r \in Requests :
    LET q == reqs[r] IN
    (q.pc = "done" /\ q.http # NoHttp /\ q.http.url = <<"/ready">>) =>
      /\ q.reply.status \in {200, 503}
      /\ q.reply.status = 200 <=> \E p \in {"openai", "openrouter", "eigencloud"} :
                                    p \in clients

\* with only the OpenRouter key configured, GET /ready was answered 200
\* while the gate was full and the window of caller u1 was exhausted
C23_Witness ==
  LET q == reqs["r1"] IN
  /\ q.pc = "done" /\ q.http # NoHttp /\ q.http.url = <<"/ready">>
  /\ q.reply.status = 200 /\ clients = {"openrouter"}
  /\ reqs["r2"].pc = "inflight" /\ activeRequests = maxConcurrency
  /\ Exhausted("u1")

\* ------------------------------------------------------------------------
\* Properties of single checkLimit calls and of the sweep
\* ------------------------------------------------------------------------
\* this step is a checkLimit call, by caller u
CheckLimitStep(u) ==
  /\ Len(rlLog') = Len(rlLog) + 1
  /\ rlLog'[Len(rlLog')].userId = u

\* the result that call returned
Returned == rlLog'[Len(rlLog')].result

\* C24: a checkLimit call that returns allowed = false leaves the whole map
\* of rate windows as it was: the count and resetAt of the rejected caller
\* and every other caller's entry.
C24_RejectionChangesNothing ==
  [][\A u \in Users : (CheckLimitStep(u) /\ ~Returned.allowed) => limits' = limits]_vars

\* the last call was rejected, its caller's window holds the maximum and the
\* other caller has an entry too
C24_Witness ==
  /\ rlLog # <<>> /\ DOMAIN limits = Users
  /\ LET e == rlLog[Len(rlLog)] IN
     /\ ~e.result.allowed
     /\ limits[e.userId] = [count |-> maxRequestsPerMinute, resetAt |-> e.resetAt]

\* the least number of whole seconds that cover ms milliseconds
SecondsToCover(ms) ==
  CHOOSE k \in 0..(ms \div 1000 + 1) : k * 1000 >= ms /\ (k - 1) * 1000 < ms

\* C25: a rejection at time now reports retryAfter = ceil((resetAt - now) /
\* 1000) for the caller's window, an integer from 1 to 60, and the next call
\* of that caller made retryAfter seconds later or more is allowed, as is a
\* call made exactly retryAfter seconds later.
C25_RetryAfter ==
  \A i \in LogIdx :
    LET e == rlLog[i] IN
    ~e.result.allowed =>
      /\ e.result.retryAfter = SecondsToCover(e.resetAt - e.at)
      /\ e.result.retryAfter \in 1..60
      /\ \A j \in LogIdx :
           (/\ j > i /\ rlLog[j].userId = e.userId
            /\ rlLog[j].at >= e.at + e.result.retryAfter * 1000
            /\ \A k \in LogIdx : (i < k /\ k < j) => rlLog[k].userId # e.userId)
           => rlLog[j].result.allowed
      /\ (i = Len(rlLog) /\ now = e.at) =>
           CheckLimit(limits, e.userId, e.at + e.result.retryAfter * 1000,
                      maxRequestsPerMinute).result.allowed

\* a call made one millisecond before the window ends was rejected with
\* retryAfter = 1, and another rejected with retryAfter = 30 was followed by
\* an allowed call 30 seconds later
C25_Witness ==
  /\ \E i \in LogIdx :
       /\ ~rlLog[i].result.allowed /\ rlLog[i].result.retryAfter = 1
       /\ rlLog[i].resetAt - rlLog[i].at = 1
  /\ \E i, j \in LogIdx :
       /\ i < j /\ rlLog[i].userId = rlLog[j].userId
       /\ ~rlLog[i].result.allowed /\ rlLog[i].result.retryAfter = 30
       /\ rlLog[j].at = rlLog[i].at + 30000 /\ rlLog[j].result.allowed

\* C26: a checkLimit call for a caller that has no entry, or whose entry has
\* resetAt <= now, returns allowed = true and leaves that caller's entry
\* {count = 1, resetAt = now + 60000}, whatever the count was before.
C26_NewWindow ==
  [][\A u \in Users :
       (CheckLimitStep(u) /\ (u \notin DOMAIN limits \/ limits[u].resetAt <= now))
       => /\ Returned.allowed
          /\ limits'[u] = [count |-> 1, resetAt |-> now + 60000]]_vars

\* a call made exactly at resetAt of a full window, which no sweep had
\* removed, was allowed and opened a window with count 1
C26_Witness ==
  /\ maxRequestsPerMinute = 2
  /\ \E i, j \in LogIdx :
       /\ i < j /\ rlLog[i].userId = rlLog[j].userId
       /\ ~rlLog[i].result.allowed
       /\ rlLog[j].at = rlLog[i].resetAt /\ rlLog[j].result.allowed
       /\ j = Len(rlLog)
       /\ limits[rlLog[j].userId] = [count |-> 1, resetAt |-> rlLog[j].at + 60000]

\* the map of a limiter in which no sweep ever fires, after the first n
\* calls of the log
RECURSIVE NoSweepMap(_)
NoSweepMap(n) ==
  IF n = 0 THEN EmptyMap
  ELSE CheckLimit(NoSweepMap(n - 1), rlLog[n].userId, rlLog[n].at,
                  maxRequestsPerMinute).limits

\* what that limiter returned to call n
NoSweepResult(n) ==
  CheckLimit(NoSweepMap(n - 1), rlLog[n].userId, rlLog[n].at,
             maxRequestsPerMinute).result

\* C27: the sweep removes only entries whose window has expired and callers
\* cannot tell that it ran: every call got the result that a limiter without
\* sweeps returns for the same calls at the same times, and the map differs
\* from that limiter's map only by expired entries that are missing. (Stated
\* of a limiter in service: destroy() stops the sweep and empties the map.)
C27_SweepInvisible ==
  InService =>
  /\ \A i \in LogIdx : rlLog[i].result = NoSweepResult(i)
  /\ LET plain == NoSweepMap(Len(rlLog)) IN
     /\ DOMAIN limits \subseteq DOMAIN plain
     /\ \A u \in DOMAIN plain :
          IF u \in DOMAIN limits THEN limits[u] = plain[u]
          ELSE plain[u].resetAt <= now

\* a sweep removed the expired entry of a caller who had been rejected, the
\* caller then called again and was allowed, and the other caller's open
\* window is still there
C27_Witness ==
  /\ \E i, j \in LogIdx :
       /\ i < j /\ rlLog[i].userId = rlLog[j].userId
       /\ ~rlLog[i].result.allowed /\ rlLog[j].result.allowed
  /\ \E u \in Users :
       /\ u \notin DOMAIN limits
       /\ \E v \in DOMAIN limits : now < limits[v].resetAt
       /\ \E i \in LogIdx : rlLog[i].userId = u

\* the calls of caller u among the first n of the log
RECURSIVE OwnCalls(_, _)
OwnCalls(u, n) ==
  IF n = 0 THEN <<>>
  ELSE IF rlLog[n].userId = u THEN Append(OwnCalls(u, n - 1), rlLog[n])
  ELSE OwnCalls(u, n - 1)

\* the map of a limiter that saw only the first n calls of sequence calls
RECURSIVE AloneMap(_, _)
AloneMap(calls, n) ==
  IF n = 0 THEN EmptyMap
  ELSE CheckLimit(AloneMap(calls, n - 1), calls[n].userId, calls[n].at,
                  maxRequestsPerMinute).limits

\* what a limiter that saw only caller u's earlier calls returns to call i
AloneResult(i) ==
  LET own == OwnCalls(rlLog[i].userId, i - 1)
  IN CheckLimit(AloneMap(own, Len(own)), rlLog[i].userId, rlLog[i].at,
                maxRequestsPerMinute).result

\* C28: a checkLimit call of one caller changes no other caller's entry, and
\* its result is the one a limiter would return that had seen only this
\* caller's earlier calls, at the same times (as long as the limiter is in
\* service: destroy() forgets every caller's calls).
C28_CallersIndependent ==
  /\ [](InService => \A i \in LogIdx : rlLog[i].result = AloneResult(i))
  /\ [][\A u \in Users : CheckLimitStep(u) =>
          \A v \in Users \ {u} :
            /\ v \in DOMAIN limits' <=> v \in DOMAIN limits
            /\ v \in DOMAIN limits => limits'[v] = limits[v]]_vars

\* one caller is rejected in a full window while the other, calling later
\* in between, was allowed and has an open window of its own
C28_Witness ==
  /\ DOMAIN limits = Users
  /\ \E i, j, k \in LogIdx :
       /\ i < j /\ j < k
       /\ rlLog[i].userId = rlLog[k].userId /\ rlLog[j].userId # rlLog[i].userId
       /\ rlLog[j].result.allowed /\ ~rlLog[k].result.allowed
       /\ limits[rlLog[j].userId].resetAt # limits[rlLog[k].userId].resetAt

\* ------------------------------------------------------------------------
\* Properties of requests that run while another waits for its backoff
\* ------------------------------------------------------------------------
\* request w waits in a retry backoff delay, request r arrives in this step
\* with a model that resolves and a caller whose window has room, and no
\* third request holds a slot
ArrivesDuringBackoff(r, w) ==
  /\ r # w /\ reqs[w].pc = "backoff" /\ Called(r)
  /\ Resolvable(reqs'[r].input) /\ ~Exhausted(reqs'[r].input.userId)
  /\ \A x \in Requests \ {r, w} : reqs[x].pc \in {"idle", "done"}

\* C29 as stated: for every maxConcurrency >= 1, a request that arrives while
\* another waits in its backoff delay is admitted and dispatched.
C29_AdmittedDuringBackoff ==
  [][\A r, w \in Requests :
       ArrivesDuringBackoff(r, w) => reqs'[r].pc = "inflight"]_vars

\* C29 (amended): a request that arrives while another waits in its backoff
\* delay is handled at once and leaves the waiting request as it is; the
\* waiting request keeps its slot, so the arriving one is admitted and
\* dispatched exactly when maxConcurrency >= 2, and with maxConcurrency = 1
\* it fails at once with CONCURRENCY_LIMIT_EXCEEDED. An admitted request can
\* complete while the other still waits: its provider call can return as
\* soon as no continuation of an earlier step is pending.
C29_BackoffKeepsSlot ==
  /\ [][\A r, w \in Requests :
          ArrivesDuringBackoff(r, w) =>
            /\ reqs'[w] = reqs[w] /\ activeRequests >= 1
            /\ reqs'[r].pc = "inflight" <=> maxConcurrency >= 2
            /\ maxConcurrency = 1 => FailedWith(reqs'[r], "CONCURRENCY_LIMIT_EXCEEDED")]_vars
  /\ [](\A r, w \in Requests :
          (r # w /\ reqs[w].pc = "backoff" /\ reqs[r].pc = "inflight" /\ ~Draining) =>
            ENABLED ProviderReturns(r, Plain("json_good")))

\* with two slots, a request of another caller arrived after the first
\* request had failed, was admitted while the first held one slot, and
\* completed successfully while the first has still not resumed
C29_Witness ==
  \E r, w \in Requests :
    /\ r # w /\ maxConcurrency = 2
    /\ reqs[w].pc = "backoff" /\ reqs[w].calls = 1
    /\ reqs[r].pc = "done" /\ reqs[r].outcome.ok /\ reqs[r].gateAt = 1
    /\ \A x \in Requests \ {r, w} : reqs[x].pc = "idle"
    /\ reqs[r].input.userId # reqs[w].input.userId
    /\ reqs[r].input.userId \in DOMAIN limits
    /\ limits[reqs[r].input.userId].resetAt - WindowMs > reqs[w].failedAt

\* ------------------------------------------------------------------------
\* Properties of the resolution order
\* ------------------------------------------------------------------------
\* the catalog entries whose provider and upstream model are those of the
\* request, by position
PairMatches(in) ==
  {i \in 1..Len(Catalog) :
     Catalog[i].provider = in.provider /\ Catalog[i].model = in.model}

\* C30: the normalized alias is first looked up as a catalog id; only when no
\* entry has that id is the catalog scanned for an entry with the request's
\* provider and the alias as upstream model; when an entry matches by id and
\* another by provider and model, the one matching by id is used.
C30_IdLookupFirst ==
  \A r \in Requests :
    LET q == reqs[r]
        id == MapModelIdToCatalogId(q.input.model, q.input.provider)
    IN q.attempt >= 1 =>
         IF HasEntryWithId(id) THEN q.actualModel = EntryWithId(id).model
         ELSE /\ PairMatches(q.input) # {}
              /\ \E i \in PairMatches(q.input) :
                   /\ \A j \in PairMatches(q.input) : i <= j
                   /\ q.actualModel = Catalog[i].model

\* the request (eigencloud, "gpt-oss") names the entry with id "gpt-oss" and
\* also the upstream model of the entry "eigencloud-gpt-oss"; it went
\* upstream with the model of the former
C30_Witness ==
  LET q == reqs["r1"] IN
  /\ q.pc = "inflight" /\ q.input.provider = "eigencloud"
  /\ q.input.model = <<"gpt", "-", "oss">>
  /\ \E i \in PairMatches(q.input) : Catalog[i].id # q.input.model
  /\ q.actualModel = <<"gpt", "-", "oss", ":", "120b">>
  /\ q.dispatched = q.actualModel

\* ------------------------------------------------------------------------
\* Properties of the JsonValidator
\* ------------------------------------------------------------------------
\* the payloads {"x": "abc"} and {"x": 1}
XIsAbc == Obj([x |-> Str("abc")])
XIsOne == Obj([x |-> Num("1")])

\* what the schema finds wrong with the payload, as path and reason: the
\* payload is no object; a required property is missing; a property is
\* neither a number nor a boolean, null or numeric string
Offences(json, schema) ==
  IF json.type # "object" THEN {<<"root", "must be object">>}
  ELSE {<<"root", "must have required property '" \o schema.required[i] \o "'">> :
          i \in {k \in 1..Len(schema.required) :
                   schema.required[k] \notin DOMAIN json.fields}}
       \cup {<<"/" \o f, "must be number">> :
               f \in {g \in DOMAIN json.fields \cap DOMAIN schema.properties :
                        LET v == json.fields[g] IN
                        ~(\/ v.type \in {"number", "boolean", "null"}
                          \/ v.type = "string" /\ v.value \in {"0", "1", "5"})}}

\* the message that lists the given violations, in their order
RECURSIVE Listed(_)
Listed(errs) ==
  IF errs = <<>> THEN ""
  ELSE (IF errs[1].instancePath = "" THEN "root" ELSE errs[1].instancePath)
         \o " " \o errs[1].message
         \o (IF Len(errs) > 1 THEN "; " ELSE "") \o Listed(Tail(errs))

\* C31: under the schema {type: "object", required: ["x"], properties: {x:
\* {type: "number"}}} the payload {"x": "abc"} is rejected with
\* SCHEMA_VALIDATION_FAILED and a message naming the path /x, and {"x": 1} is
\* accepted; every rejection has one entry in details.errors for each thing
\* wrong with the payload, a message listing all those entries, and in
\* details.json the payload, whose offending properties hold the values
\* received (under the schema with x alone, the payload exactly as received).
C31_ValidateResponse ==
  validation.pc = "done" =>
    LET json == validation.json
        schema == validation.schema
        res == validation.result
    IN /\ (json = XIsAbc /\ schema = ResponseSchema) =>
            /\ ~res.valid /\ res.error.code = "SCHEMA_VALIDATION_FAILED"
            /\ res.error.message = "JSON response does not match schema: /x must be number"
       /\ (json = XIsOne /\ schema = ResponseSchema) => res.valid
       /\ res.valid <=> Offences(json, schema) = {}
       /\ ~res.valid =>
            LET errs == res.error.details.errors
                kept == res.error.details.json
            IN /\ res.error.code = "SCHEMA_VALIDATION_FAILED" /\ ~res.error.retryable
               /\ {<<IF errs[i].instancePath = "" THEN "root" ELSE errs[i].instancePath,
                     errs[i].message>> : i \in 1..Len(errs)} = Offences(json, schema)
               /\ Len(errs) = Cardinality(Offences(json, schema))
               /\ res.error.message = "JSON response does not match schema: " \o Listed(errs)
               /\ kept.type = json.type
               /\ json.type = "object" =>
                    /\ DOMAIN kept.fields = DOMAIN json.fields
                    /\ \A f \in DOMAIN json.fields :
                         <<"/" \o f, "must be number">> \in Offences(json, schema)
                           => kept.fields[f] = json.fields[f]
                    /\ schema = ResponseSchema => kept = json
               /\ json.type # "object" => kept = json

\* {"x": "abc"} with no y was rejected under the schema that requires two
\* numbers: two violations, both in the message, the payload in the details
C31_Witness ==
  /\ validation.pc = "done" /\ validation.json = XIsAbc
  /\ validation.schema = TwoNumbersSchema /\ ~validation.result.valid
  /\ Len(validation.result.error.details.errors) = 2
  /\ validation.result.error.message =
       "JSON response does not match schema: /x must be number; root must have required property 'y'"
  /\ validation.result.error.details.json = XIsAbc

\* ------------------------------------------------------------------------
\* Properties of the validation of successful responses
\* ------------------------------------------------------------------------
\* the call returned a response to a request that supplied an output schema
SucceededWithSchema(q) ==
  q.pc = "done" /\ q.outcome.ok /\ q.input.hasSchema

\* C33: every successful response to a request that supplied an output schema
\* carries a parsed JSON payload that the validator accepts against the
\* schema: none is returned without validation, whether the upstream text was
\* empty or parsed to a falsy value such as null.
C33_SchemaSuccessValidated ==
  \A r \in Requests :
    SucceededWithSchema(reqs[r]) =>
      /\ reqs[r].outcome.response.json # "undefined"
      /\ ValidateResponse(JsonValue(reqs[r].outcome.response.json), ResponseSchema).valid

\* the upstream text "null" was returned as a success, json null, to a request
\* with an output schema that requires an object
C33_Witness ==
  \E r \in Requests :
    /\ SucceededWithSchema(reqs[r])
    /\ reqs[r].seen[Len(reqs[r].seen)] = Plain("json_null")
    /\ JsonValue(reqs[r].outcome.response.json) = Null
    /\ ~ValidateResponse(Null, ResponseSchema).valid

\* ------------------------------------------------------------------------
\* Properties of the provider of the resolved model
\* ------------------------------------------------------------------------
\* the catalog has an entry of that provider with that upstream model
ServedBy(provider, model) ==
  \E i \in 1..Len(Catalog) : Catalog[i].provider = provider /\ Catalog[i].model = model

\* C32: whenever a call is dispatched to a provider's adapter, the catalog
\* entry the request resolved to has the provider of the request, and the
\* model string dispatched is the upstream model of an entry of that provider.
C32_ResolvedProviderIsRequested ==
  \A r \in Requests :
    reqs[r].calls > 0 =>
      /\ ResolveModel(reqs[r].input.model, reqs[r].input.provider).def.provider
           = reqs[r].input.provider
      /\ ServedBy(reqs[r].input.provider, reqs[r].dispatched)

\* a request for provider openai whose model is the catalog id of the
\* openrouter entry was dispatched, with that entry's upstream model
C32_Witness ==
  \E r \in Requests :
    /\ reqs[r].input.provider = "openai"
    /\ reqs[r].input.model = <<"openrouter", "-", "glm", "-", "free">>
    /\ reqs[r].pc = "inflight" /\ reqs[r].upstream = 1
    /\ reqs[r].dispatched = <<"z", "-", "ai/glm", ":", "free">>
    /\ ~ServedBy("openai", reqs[r].dispatched)

\* ------------------------------------------------------------------------
\* Properties of the slot of a request that is retried
\* ------------------------------------------------------------------------
\* the request is between its admission and its final outcome
HoldsSlot(q) == q.pc \in {"inflight", "backoff", "settled"}

InFlight == {r \in Requests : reqs[r].pc = "inflight"}

\* C34: a request holds exactly one slot from its admission to its final
\* outcome: admission takes one slot, every step in between (a failed attempt
\* that goes to backoff, a backoff that ends in the next attempt) neither
\* takes nor gives back a slot, the final outcome gives the slot back; so the
\* counter is the number of requests between admission and outcome, and the
\* provider calls in flight never exceed maxConcurrency.
C34_OneSlotAcrossAttempts ==
  /\ [](/\ activeRequests = Cardinality({r \in Requests : HoldsSlot(reqs[r])})
        /\ Cardinality(InFlight) <= maxConcurrency
        /\ \A r \in Requests :
             HoldsSlot(reqs[r]) => reqs[r].acquired = 1 /\ reqs[r].released = 0)
  /\ [][\A r \in Requests :
          /\ HoldsSlot(reqs[r]) => reqs'[r].acquired = 1
          /\ (HoldsSlot(reqs[r]) /\ HoldsSlot(reqs'[r]))
               => reqs'[r].released = 0
          /\ (HoldsSlot(reqs[r]) /\ HoldsSlot(reqs'[r]) /\ reqs'[r] # reqs[r])
               => /\ activeRequests' = activeRequests
                  /\ reqs'[r].acquired = 1 /\ reqs'[r].released = 0
          /\ (HoldsSlot(reqs[r]) /\ reqs'[r].pc = "done")
               => /\ activeRequests' = activeRequests - 1
                  /\ reqs'[r].acquired = 1 /\ reqs'[r].released = 1
          /\ (reqs[r].pc = "idle" /\ HoldsSlot(reqs'[r]))
               => activeRequests' = activeRequests + 1 /\ reqs'[r].acquired = 1]_vars

\* with two slots, one request is in flight on its second attempt after a
\* backoff while another is in flight on its first; both slots are taken
C34_Witness ==
  \E r, w \in Requests :
    /\ r # w /\ maxConcurrency = 2 /\ activeRequests = 2
    /\ reqs[w].pc = "inflight" /\ reqs[w].attempt = 2 /\ reqs[w].calls = 2
    /\ Len(reqs[w].delays) = 1 /\ reqs[w].acquired = 1 /\ reqs[w].released = 0
    /\ reqs[r].pc = "inflight" /\ reqs[r].attempt = 1

\* ------------------------------------------------------------------------
\* Properties of the rate window of requests the gate rejects
\* ------------------------------------------------------------------------
\* C35: a request that passed the rate-limit check and was then rejected by
\* the gate with CONCURRENCY_LIMIT_EXCEEDED has been counted in its caller's
\* rate window, and the count stays: the window has one more than before (or
\* 1, when it was new), nothing was dispatched, and no slot was taken.
C35_GateRejectionCounted ==
  [][\A r \in Requests :
       (Called(r) /\ FailedWith(reqs'[r], "CONCURRENCY_LIMIT_EXCEEDED")) =>
         LET u == reqs'[r].input.userId IN
         /\ ~Exhausted(u)
         /\ u \in DOMAIN limits'
         /\ limits'[u].count = Counted(u)
         /\ limits'[u].resetAt > now
         /\ reqs'[r].calls = 0 /\ reqs'[r].acquired = 0
         /\ activeRequests' = activeRequests]_vars

\* while another caller's request held the only slot, a caller's first
\* request was rejected by the gate and its next one by the rate limit: its
\* window is used up and none of its requests was dispatched
C35_Witness ==
  \E r, w \in Requests :
    /\ r # w /\ maxRequestsPerMinute = 1
    /\ reqs[r].input.userId = reqs[w].input.userId
    /\ FailedWith(reqs[r], "CONCURRENCY_LIMIT_EXCEEDED")
    /\ FailedWith(reqs[w], "RATE_LIMIT_EXCEEDED")
    /\ reqs[r].input.userId \in DOMAIN limits
    /\ limits[reqs[r].input.userId].count = 1
    /\ \A x \in Requests :
         (reqs[x].pc # "idle" /\ reqs[x].input.userId = reqs[r].input.userId)
           => reqs[x].calls = 0

\* ------------------------------------------------------------------------
\* Properties of failures before the dispatch
\* ------------------------------------------------------------------------
AdmissionCodes ==
  {"MODEL_NOT_FOUND", "RATE_LIMIT_EXCEEDED", "CONCURRENCY_LIMIT_EXCEEDED"}

\* C36: a call whose model does not resolve, whose caller's window is
\* exhausted or which finds the gate full ends in that same step with
\* MODEL_NOT_FOUND, RATE_LIMIT_EXCEEDED or CONCURRENCY_LIMIT_EXCEEDED, with no
\* provider call, no backoff delay and no attempt counted, although the last
\* two are retryable; a request waits in a backoff only after a provider call
\* of its own failed, with an error that is none of the three.
C36_AdmissionFailuresNotRetried ==
  /\ [][\A r \in Requests :
          (/\ Called(r)
           /\ \/ ~Resolvable(reqs'[r].input)
              \/ Exhausted(reqs'[r].input.userId)
              \/ activeRequests >= maxConcurrency) =>
            LET q == reqs'[r] IN
            /\ q.pc = "done" /\ ~q.outcome.ok
            /\ q.outcome.error.code =
                 (IF ~Resolvable(q.input) THEN "MODEL_NOT_FOUND"
                  ELSE IF Exhausted(q.input.userId) THEN "RATE_LIMIT_EXCEEDED"
                  ELSE "CONCURRENCY_LIMIT_EXCEEDED")
            /\ q.outcome.error.retryable = (q.outcome.error.code # "MODEL_NOT_FOUND")
            /\ q.calls = 0 /\ q.upstream = 0 /\ q.delays = <<>> /\ q.attempt = 0
            /\ q.acquired = 0]_vars
  /\ [](\A r \in Requests :
          LET q == reqs[r] IN
          /\ (\E c \in AdmissionCodes : FailedWith(q, c))
               => q.calls = 0 /\ q.delays = <<>> /\ q.attempt = 0
          /\ q.pc = "backoff"
               => /\ q.calls = Len(q.delays) /\ q.calls >= 1
                  /\ q.lastError.code \notin AdmissionCodes)

\* with retries configured, one call failed with each of the three codes
\* without a provider call or a delay, while an admitted request waits in the
\* backoff after its provider call failed
C36_Witness ==
  /\ maxRetries >= 2
  /\ \E r \in Requests :
       /\ FailedWith(reqs[r], "CONCURRENCY_LIMIT_EXCEEDED")
       /\ reqs[r].outcome.error.retryable /\ reqs[r].calls = 0 /\ reqs[r].delays = <<>>
  /\ \E r \in Requests :
       /\ \/ FailedWith(reqs[r], "RATE_LIMIT_EXCEEDED") /\ reqs[r].outcome.error.retryable
          \/ FailedWith(reqs[r], "MODEL_NOT_FOUND")
       /\ reqs[r].calls = 0 /\ reqs[r].delays = <<>>
  /\ \E r \in Requests : reqs[r].pc = "backoff" /\ reqs[r].calls = 1

\* ------------------------------------------------------------------------
\* Termination of ChatService.chat
\* ------------------------------------------------------------------------
\* C37: when every provider call settles and every backoff timer fires, every
\* chat call that was made ends with a response or an error, and its slot is
\* given back: the counter then counts only the requests still between
\* admission and outcome. No run of retryable failures keeps a request
\* retrying forever.
C37_ChatTerminates ==
  \A r \in LiveRequests :
    (reqs[r].pc # "idle")
      ~> (/\ reqs[r].pc = "done"
          /\ reqs[r].released = reqs[r].acquired
          /\ activeRequests = Cardinality({x \in Requests : HoldsSlot(reqs[x])}))

\* a request whose provider calls all failed with a retryable error has ended
\* with that error after its last attempt and a backoff, its slot given back
C37_Witness ==
  \E r \in LiveRequests :
    /\ maxRetries = 2 /\ reqs[r].pc = "done" /\ ~reqs[r].outcome.ok
    /\ reqs[r].outcome.error.retryable
    /\ reqs[r].calls = 2 /\ Len(reqs[r].delays) = 1
    /\ reqs[r].acquired = 1 /\ reqs[r].released = 1
    /\ activeRequests = 0

====
